---- MODULE Spec2Model ----
(***************************************************************************)
(* A model of logglance's log ingestion and filtering engine               *)
(* (src/src/logfile.rs): the background reader task, the event channel to  *)
(* the LogFile pane, the pane's per-frame ui tick (drain, size gate, row    *)
(* cap, filter cache) and the pure line styling of RowModifier.             *)
(*                                                                          *)
(* Option<T> is modelled as a sequence: None is <<>>, Some(x) is <<x>>.     *)
(* Bytes and characters are one-character strings; a file, a line and a     *)
(* pattern are sequences of them.  Sizes are scaled down: MAX_FILE_SIZE,    *)
(* TAIL_SLACK and MAX_ROWS keep the source's names and roles with small     *)
(* values so that every branch around them is exercised.                    *)
(***************************************************************************)
EXTENDS Integers, Sequences, FiniteSets, TLC

\* ---------------------------------------------------------------- bounds
\* Total number of bytes ever written to the watched path.
MaxBytes == 5
\* Number of times the watched file is deleted and created again.
MaxRecreate == 1
\* Length of the file opened in SpecTail.
MaxTailLen == 6
\* Number of lines the watched file comes to hold in SpecFilter.
MaxDeliver == 3
\* Number of highlight rules in a RowModifier (SpecLine).
MaxRules == 2
\* Number of read passes that fail (SpecFaults).
MaxFaults == 1
\* Number of lines the files of SpecFaults and SpecRotate hold together.
MaxWrites == 3
\* Number of times the user picks an encoding (SpecReload).
MaxReload == 2
\* Number of events the loop of the task does not act on (SpecEvents).
MaxNoise == 1

\* ------------------------------------------------------ program constants
\* const MAX_FILE_SIZE (4 GiB in the source), scaled.
MAX_FILE_SIZE == 3
\* the 512 bytes added to MAX_FILE_SIZE in init_reader's seek_to, scaled.
TAIL_SLACK == 2
\* const MAX_ROWS (120 million in the source), scaled.
MAX_ROWS == 2

None == <<>>
Some(x) == <<x>>
IsSome(o) == o /= <<>>
Unwrap(o) == o[1]

NL == "\n"
\* The bytes a writer puts into the watched file.
Bytes == {"a", NL}
Encodings == {"UTF_8", "WINDOWS_1252"}

Min(a, b) == IF a < b THEN a ELSE b
Max(a, b) == IF a > b THEN a ELSE b

\* The last n elements of s (all of s when it is shorter).
LastN(s, n) == SubSeq(s, Max(1, Len(s) - n + 1), Len(s))
IsSuffix(s, t) == Len(s) <= Len(t) /\ s = LastN(t, Len(s))

RECURSIVE Flatten(_)
Flatten(ss) == IF ss = <<>> THEN <<>> ELSE Head(ss) \o Flatten(Tail(ss))

\* --------------------------------------------------------------- decoding
\* encoding.decode(buf): every modelled encoding is ASCII compatible; the
\* byte "h" stands for a high byte (0xE9), a letter in WINDOWS_1252 and a
\* malformed sequence (U+FFFD, written "?") in UTF_8.
DecodeByte(enc, b) ==
    IF b = "h" THEN (IF enc = "UTF_8" THEN "?" ELSE "e") ELSE b

Decode(enc, buf) == [i \in 1..Len(buf) |-> DecodeByte(enc, buf[i])]

\* ------------------------------------------------------------- the regex
\* regex::escape: a backslash before every metacharacter.
Meta == {"(", ")", ".", "\\"}

RECURSIVE Escape(_)
Escape(p) ==
    IF p = <<>> THEN <<>>
    ELSE (IF Head(p) \in Meta THEN <<"\\", Head(p)>> ELSE <<Head(p)>>)
         \o Escape(Tail(p))

\* The modelled regex syntax: a literal character, "." (any character but
\* a newline), and a backslash escape.  An unbalanced group or a trailing
\* backslash is a compile error; the result is <<"ok", atoms>> or <<"err">>.
RECURSIVE Parse(_)
Parse(p) ==
    IF p = <<>> THEN <<"ok", <<>>>>
    ELSE IF Head(p) = "\\" THEN
        IF Len(p) < 2 THEN <<"err">>
        ELSE LET r == Parse(SubSeq(p, 3, Len(p)))
             IN IF r[1] = "err" THEN r
                ELSE <<"ok", <<[any |-> FALSE, c |-> p[2]]>> \o r[2]>>
    ELSE IF Head(p) \in {"(", ")"} THEN <<"err">>
    ELSE LET r == Parse(Tail(p))
             a == IF Head(p) = "." THEN [any |-> TRUE, c |-> "."]
                  ELSE [any |-> FALSE, c |-> Head(p)]
         IN IF r[1] = "err" THEN r ELSE <<"ok", <<a>> \o r[2]>>

\* Search::create_regex: the pattern, escaped in literal mode, is compiled
\* with the case flag.  The result is an Option of the compiled matcher.
create_regex(s) ==
    LET regex_pattern == IF s.is_regex THEN s.string ELSE Escape(s.string)
        r == Parse(regex_pattern)
    IN IF r[1] = "err" THEN None
       ELSE Some([atoms |-> r[2], ci |-> s.case_insensitive])

Lower(c) == IF c = "A" THEN "a" ELSE IF c = "B" THEN "b" ELSE c

AtomMatches(a, ch, ci) ==
    IF a.any THEN ch /= NL
    ELSE IF ci THEN Lower(a.c) = Lower(ch) ELSE a.c = ch

\* The matcher matches text at 0-based offset i.
MatchesAt(re, text, i) ==
    /\ i + Len(re.atoms) <= Len(text)
    /\ \A k \in 1..Len(re.atoms) : AtomMatches(re.atoms[k], text[i + k], re.ci)

\* Regex::is_match: an unanchored search.
is_match(re, text) == \E i \in 0..Len(text) : MatchesAt(re, text, i)

\* ------------------------------------------------------------ the reader
\* BufReader::read_until(b'\n') from position pos of content: the position
\* after the next newline, or the end of the data when there is none.
\* A position is the number of bytes already consumed.
read_until(content, pos) ==
    IF \E j \in (pos + 1)..Len(content) : content[j] = NL
    THEN CHOOSE j \in (pos + 1)..Len(content) :
             /\ content[j] = NL
             /\ \A k \in (pos + 1)..(j - 1) : content[k] /= NL
    ELSE Len(content)

\* The loop of read_data_from_file: read_data is the VecDeque, n the local
\* counter `lines`.  Each entry keeps the offset its record starts at
\* (a ghost field) next to the decoded text.
RECURSIVE read_loop(_, _, _, _, _, _)
read_loop(content, pos, restrict_row_number, enc, read_data, n) ==
    LET end == read_until(content, pos)
        bytes_read == end - pos
        output == Decode(enc, SubSeq(content, pos + 1, end))
        kept == IF restrict_row_number /\ n + 1 > MAX_ROWS
                THEN Tail(read_data) ELSE read_data
    IN IF bytes_read = 0 THEN [data |-> read_data, pos |-> pos]
       ELSE read_loop(content, end, restrict_row_number, enc,
                      Append(kept, [off |-> pos, text |-> output]), n + 1)

\* A pass whose row cap drops the newest record instead of the oldest one:
\* the batch is the first MAX_ROWS records of the pass.
read_data_from_file_KeepFirst(content, pos, restrict_row_number, enc) ==
    LET r == read_loop(content, pos, FALSE, enc, <<>>, 0)
    IN IF restrict_row_number
       THEN [r EXCEPT !.data = SubSeq(@, 1, Min(Len(@), MAX_ROWS))]
       ELSE r

\* A pass that reads from the start of the file, not from the cursor.
read_data_from_file_FromStart(content, pos, restrict_row_number, enc) ==
    read_loop(content, 0, restrict_row_number, enc, <<>>, 0)

\* A pass that applies the row cap whatever the restriction decision is.
read_data_from_file_CapsAlways(content, pos, restrict_row_number, enc) ==
    read_loop(content, pos, TRUE, enc, <<>>, 0)

\* A pass that holds back a record without its newline: it is not emitted
\* and the cursor stays at its first byte, so that a later pass reads the
\* whole line.
read_data_from_file_HoldsTail(content, pos, restrict_row_number, enc) ==
    LET r == read_loop(content, pos, restrict_row_number, enc, <<>>, 0)
        n == Len(r.data)
    IN IF n > 0 /\ r.data[n].text[Len(r.data[n].text)] /= NL
       THEN [data |-> SubSeq(r.data, 1, n - 1), pos |-> r.data[n].off]
       ELSE r

\* read_data_from_file: one read pass from the cursor to the end of the
\* data available; the batch and the cursor after the pass.
read_data_from_file(content, pos, restrict_row_number, enc) ==
    read_loop(content, pos, restrict_row_number, enc, <<>>, 0)

\* An init_reader that starts reading at the offset it sought to, without
\* discarding the bytes up to the next newline.
init_reader_NoDiscard(content, restrict_filesize, override, detected) ==
    LET enc == IF IsSome(override) THEN Unwrap(override) ELSE detected
        len == Len(content)
        seek_to == MAX_FILE_SIZE + TAIL_SLACK
    IN IF restrict_filesize /\ len > MAX_FILE_SIZE
       THEN IF len - seek_to < 0
            THEN [ok |-> FALSE, pos |-> 0, enc |-> enc, seek |-> -1]
            ELSE [ok |-> TRUE, pos |-> len - seek_to,
                  enc |-> enc, seek |-> len - seek_to]
       ELSE [ok |-> TRUE, pos |-> 0, enc |-> enc, seek |-> -1]

\* An init_reader that runs the detection even when an encoding is given.
init_reader_DetectsAlways(content, restrict_filesize, override, detected) ==
    LET enc == detected
        len == Len(content)
        seek_to == MAX_FILE_SIZE + TAIL_SLACK
    IN IF restrict_filesize /\ len > MAX_FILE_SIZE
       THEN IF seek_to > len
            THEN [ok |-> FALSE, pos |-> 0, enc |-> enc, seek |-> -1]
            ELSE [ok |-> TRUE, pos |-> read_until(content, len - seek_to),
                  enc |-> enc, seek |-> len - seek_to]
       ELSE [ok |-> TRUE, pos |-> 0, enc |-> enc, seek |-> -1]

\* init_reader: the encoding is the override or the detected one; the
\* cursor starts at 0, or, when restricted and over the threshold, after
\* the first newline at or after size - (MAX_FILE_SIZE + TAIL_SLACK).
\* A seek before the start of the file fails.  seek is a ghost field: the
\* offset sought to, -1 when init_reader does not seek.
init_reader(content, restrict_filesize, override, detected) ==
    LET enc == IF IsSome(override) THEN Unwrap(override) ELSE detected
        len == Len(content)
        seek_to == MAX_FILE_SIZE + TAIL_SLACK
    IN IF restrict_filesize /\ len > MAX_FILE_SIZE
       THEN IF len - seek_to < 0
            THEN [ok |-> FALSE, pos |-> 0, enc |-> enc, seek |-> -1]
            ELSE [ok |-> TRUE, pos |-> read_until(content, len - seek_to),
                  enc |-> enc, seek |-> len - seek_to]
       ELSE [ok |-> TRUE, pos |-> 0, enc |-> enc, seek |-> -1]

\* ----------------------------------------------------------------- state
VARIABLES
    \* the environment: the content of every file the watched path has named
    \* (the last one is the file now at the path), and the notify event
    \* channel of the task
    disk, watching, fsq,
    \* the reader task: its position, its locals (restrict_filesize,
    \* encoding, the open file and the cursor in it, the size stat returned)
    \* and the number of events its loop has skipped
    pc, task,
    \* the channels: task -> pane messages, and the one-shot gate response
    chan, gate,
    \* the LogFile pane
    lines, filter_cache, recalculate_filter_cache, restrict_filesize,
    row_modifier, errors, encoding, receiver, thread,
    \* history of the task: every record sent in a FileData, in order, with
    \* the pass (initial or append) that read it, the open and the offset
    \* it was read at
    emitted,
    \* history of the last ui tick: the number of lines it ran the filter's
    \* matcher on
    scanned,
    \* RowModifier::generate_line: the text given and the Line returned
    gl_text, gl_line,
    \* what the file system does to the task's calls: "ok", "missing" (stat
    \* and open fail), "unreadable" (open fails) or "fault" (reads fail)
    io,
    \* the tasks the pane has aborted, oldest first: where each one stands,
    \* its one-shot gate channel, and the number of messages it has sent
    \* since the abort
    old,
    \* the tab of the pane is open
    tab,
    \* the task whose one-shot sender the pane's dialog state holds: 0 is the
    \* task of the pane's receiver, k > 0 is old[k]
    holder,
    \* LogTool: the tree of tiles, the recent files and the channel of the
    \* messages of the file dialog and of the menu
    tree, recent_files, messages

envVars == <<disk, watching, fsq>>
taskVars == <<pc, task, emitted>>
paneVars == <<lines, filter_cache, recalculate_filter_cache, restrict_filesize,
              row_modifier, errors, encoding, receiver, thread, scanned>>
toolVars == <<tree, recent_files, messages>>
\* what lies outside the pipeline of one pane: the line last drawn and the
\* application around the panes
lineVars == <<gl_text, gl_line, toolVars>>
ctlVars == <<io, old, tab, holder>>
vars == <<envVars, taskVars, chan, gate, paneVars, lineVars, ctlVars>>

\* Search::default, Filter::default, RowModifier::default.
Search_default ==
    [string |-> <<>>, is_regex |-> FALSE, case_insensitive |-> FALSE,
     regex |-> None, changed |-> FALSE]

Filter_default == [search |-> Search_default, filter |-> FALSE, changed |-> FALSE]

RowModifier_default == [filter |-> Filter_default, row_highlights |-> <<>>]

\* All sequences over S of length at most n.
SeqsUpTo(S, n) == UNION {[1..k -> S] : k \in 0..n}

\* The file now at the watched path.
CurFile == disk[Len(disk)]
TotalBytes == Len(Flatten(disk))

\* LogFile::new, before the first frame; the task is not spawned yet.
InitPane ==
    /\ lines = <<>>
    /\ filter_cache = None
    /\ recalculate_filter_cache = FALSE
    /\ restrict_filesize = "Initializing"
    /\ errors = <<>>
    /\ encoding = None
    /\ receiver = FALSE
    /\ thread = FALSE
    /\ scanned = 0

InitTask ==
    /\ pc = "unspawned"
    /\ task = [restrict |-> FALSE, enc |-> "UTF_8", override |-> None,
               open |-> 0, pos |-> 0, size |-> 0, seek |-> -1, ignored |-> 0]
    /\ emitted = <<>>
    /\ chan = <<>>
    /\ gate = "none"

\* LogTool::create_tree, lines 224-235: a tree whose root is a tab container
\* without tabs.  A tile id is a number, given out in order.
create_tree ==
    [next_tile_id |-> 2, root |-> Some(1),
     tabs |-> [children |-> <<>>, active |-> None], panes |-> <<>>]

\* LogTool::default, lines 263-272.
InitTool ==
    /\ tree = create_tree
    /\ recent_files = <<>>
    /\ messages = <<>>

InitLine ==
    /\ gl_text = <<>>
    /\ gl_line = None
    /\ InitTool

\* A file system without failures, no aborted task, the tab open.
InitCtl ==
    /\ io = "ok"
    /\ old = <<>>
    /\ tab = TRUE
    /\ holder = 0

Init ==
    /\ disk \in {<<c>> : c \in SeqsUpTo(Bytes, MaxBytes)}
    /\ watching = FALSE
    /\ fsq = <<>>
    /\ InitTask
    /\ InitPane
    /\ row_modifier = RowModifier_default
    /\ InitLine
    /\ InitCtl

\* --------------------------------------------------------- the environment
\* A writer appends one byte to the file at the watched path; the watch on
\* the parent directory, once registered, queues a data-modified event.
EnvAppend(b) ==
    /\ pc /= "unspawned"
    /\ TotalBytes < MaxBytes
    /\ disk' = [disk EXCEPT ![Len(disk)] = Append(@, b)]
    /\ fsq' = IF watching
              THEN Append(fsq, [kind |-> "ModifyData", name |-> "watched"])
              ELSE fsq
    /\ UNCHANGED <<watching, taskVars, chan, gate, paneVars, row_modifier, lineVars, ctlVars>>

\* ------------------------------------------------------- the reader task
Msg(tag, val) == [tag |-> tag, val |-> val]

\* Encoding::for_bom and chardetng over the probe chunk: input that is
\* valid UTF-8 (all of ASCII is) is guessed as UTF_8 (allow_utf8 is true),
\* anything else as a legacy encoding.
Detect(content) ==
    IF \E i \in 1..Len(content) : content[i] = "h"
    THEN "WINDOWS_1252" ELSE "UTF_8"

\* reader, lines 852-867: the stat of the path fails; the error is sent as
\* an Error message and the task ends.
ReaderStatFail ==
    /\ pc = "start"
    /\ io = "missing"
    /\ chan' = Append(chan, Msg("Error", "metadata"))
    /\ pc' = "done"
    /\ UNCHANGED <<envVars, task, gate, emitted, paneVars, row_modifier,
                   lineVars, ctlVars>>

\* reader, lines 852-883, file over the threshold: the gate request is
\* sent with the sender of a fresh one-shot channel, and the task goes on
\* to block in rx.recv().
ReaderGateAsk ==
    /\ pc = "start"
    /\ io /= "missing"
    /\ Len(CurFile) > MAX_FILE_SIZE
    /\ chan' = Append(chan, Msg("ShowRestrictFileSizeDialog", Len(CurFile)))
    /\ gate' = "open"
    /\ task' = [task EXCEPT !.size = Len(CurFile)]
    /\ pc' = "gate"
    /\ UNCHANGED <<envVars, emitted, paneVars, row_modifier, lineVars, ctlVars>>

\* reader, lines 879-883, file at or below the threshold: restricted
\* without asking.
ReaderGateSkip ==
    /\ pc = "start"
    /\ io /= "missing"
    /\ ~(Len(CurFile) > MAX_FILE_SIZE)
    /\ chan' = Append(chan, Msg("RestrictFileSize", TRUE))
    /\ task' = [task EXCEPT !.size = Len(CurFile), !.restrict = TRUE]
    /\ pc' = "init"
    /\ UNCHANGED <<envVars, gate, emitted, paneVars, row_modifier, lineVars, ctlVars>>

\* A wait for the answer that gives up and goes on restricted when no
\* answer has come.
ReaderGateRecv_Timeout ==
    /\ pc = "gate"
    /\ task' = [task EXCEPT !.restrict = (gate /= "false")]
    /\ gate' = "none"
    /\ pc' = "init"
    /\ UNCHANGED <<envVars, chan, emitted, paneVars, row_modifier, lineVars, ctlVars>>

\* reader, line 878: rx.recv() returns once the pane has sent its answer.
ReaderGateRecv ==
    /\ pc = "gate"
    /\ gate \in {"true", "false"}
    /\ task' = [task EXCEPT !.restrict = (gate = "true")]
    /\ gate' = "none"
    /\ pc' = "init"
    /\ UNCHANGED <<envVars, chan, emitted, paneVars, row_modifier, lineVars, ctlVars>>

\* The calls of init_reader that the file system can fail: File::open
\* (line 753) on a file that is gone or may not be read, the read of the
\* probe chunk (761) when no encoding is given, and the read_until after
\* the tail seek (799).
InitReaderIoFails(r, override) ==
    \/ io \in {"missing", "unreadable"}
    \/ io = "fault" /\ (~IsSome(override) \/ r.seek >= 0)

\* A task that goes on from init_reader without sending the encoding.
ReaderInit_Silent ==
    /\ pc = "init"
    /\ LET r == init_reader(CurFile, task.restrict, task.override, Detect(CurFile))
       IN IF r.ok /\ ~InitReaderIoFails(r, task.override)
          THEN /\ task' = [task EXCEPT !.enc = r.enc, !.open = Len(disk),
                                       !.pos = r.pos, !.seek = r.seek]
               /\ pc' = "watch"
          ELSE /\ pc' = "done"
               /\ UNCHANGED task
    /\ UNCHANGED <<envVars, chan, gate, emitted, paneVars, row_modifier, lineVars, ctlVars>>

\* reader, lines 888-890: init_reader, then SetEncoding.  An error of
\* init_reader ends the task (the ? operator), with nothing sent.
ReaderInit ==
    /\ pc = "init"
    /\ LET r == init_reader(CurFile, task.restrict, task.override, Detect(CurFile))
       IN IF r.ok /\ ~InitReaderIoFails(r, task.override)
          THEN /\ task' = [task EXCEPT !.enc = r.enc, !.open = Len(disk),
                                       !.pos = r.pos, !.seek = r.seek]
               /\ chan' = Append(chan, Msg("SetEncoding", Some(r.enc)))
               /\ pc' = "watch"
          ELSE /\ pc' = "done"
               /\ UNCHANGED <<task, chan>>
    /\ UNCHANGED <<envVars, gate, emitted, paneVars, row_modifier, lineVars, ctlVars>>

\* A watcher that is dropped as soon as it is made: no event is queued.
ReaderWatch_Dropped ==
    /\ pc = "watch"
    /\ watching' = FALSE
    /\ fsq' = <<>>
    /\ pc' = "read0"
    /\ UNCHANGED <<disk, task, emitted, chan, gate, paneVars,
                   row_modifier, lineVars, ctlVars>>

\* reader, lines 894-910: the watcher on the parent directory.
ReaderWatch ==
    /\ pc = "watch"
    /\ watching' = TRUE
    /\ fsq' = <<>>
    /\ pc' = "read0"
    /\ UNCHANGED <<disk, task, emitted, chan, gate, paneVars,
                   row_modifier, lineVars, ctlVars>>

\* One read pass of the task and the FileData it sends (lines 914-920 and
\* 948-954): nothing is sent for an empty batch.
Texts(batch) == [i \in 1..Len(batch) |-> batch[i].text]

ReadPass(kind) ==
    LET r == read_data_from_file(disk[task.open], task.pos, task.restrict, task.enc)
    IN /\ task' = [task EXCEPT !.pos = r.pos]
       /\ chan' = IF r.data /= <<>>
                  THEN Append(chan, Msg("FileData", Texts(r.data)))
                  ELSE chan
       /\ emitted' = emitted \o [i \in 1..Len(r.data) |->
                                   [pass |-> kind, open |-> task.open,
                                    off |-> r.data[i].off,
                                    text |-> r.data[i].text]]

\* reader, lines 914-925: the initial read.
ReaderInitialRead ==
    /\ pc = "read0"
    /\ io /= "fault"
    /\ ReadPass("initial")
    /\ pc' = "loop"
    /\ UNCHANGED <<envVars, gate, paneVars, row_modifier, lineVars, ctlVars>>

\* reader, lines 929-939 and 945-960: a data-modified event for the watched
\* file starts a read pass from the cursor.
ReaderOnData ==
    /\ pc = "loop"
    /\ fsq /= <<>>
    /\ Head(fsq).name = "watched"
    /\ Head(fsq).kind = "ModifyData"
    /\ io /= "fault"
    /\ fsq' = Tail(fsq)
    /\ ReadPass("append")
    /\ UNCHANGED <<disk, watching, pc, gate, paneVars, row_modifier, lineVars, ctlVars>>

\* The events the loop acts on: a created or data-modified event one of
\* whose paths has the name of the watched file (lines 930-947).
Handled(evt) ==
    evt.name = "watched" /\ evt.kind \in {"Create", "ModifyData"}

\* A loop that takes a metadata event for the watched file as a sign of
\* new data and reads.
ReaderOnIgnored_ReadsOnMetadata ==
    /\ pc = "loop"
    /\ fsq /= <<>>
    /\ ~Handled(Head(fsq))
    /\ fsq' = Tail(fsq)
    /\ IF Head(fsq).name = "watched" /\ Head(fsq).kind = "ModifyMetadata"
       THEN \E r \in {read_data_from_file(disk[task.open], task.pos,
                                          task.restrict, task.enc)} :
               /\ task' = [task EXCEPT !.pos = r.pos, !.ignored = @ + 1]
               /\ chan' = IF r.data /= <<>>
                          THEN Append(chan, Msg("FileData", Texts(r.data)))
                          ELSE chan
               /\ emitted' = emitted \o [i \in 1..Len(r.data) |->
                                           [pass |-> "append", open |-> task.open,
                                            off |-> r.data[i].off,
                                            text |-> r.data[i].text]]
       ELSE /\ task' = [task EXCEPT !.ignored = @ + 1]
            /\ UNCHANGED <<chan, emitted>>
    /\ UNCHANGED <<disk, watching, pc, gate, paneVars, lineVars, ctlVars>>

\* reader, lines 930-939 and 961-970: an event none of whose paths has the
\* name of the watched file, or an event for it that is neither a create
\* nor a data modification, is taken off the queue and nothing else is
\* done.
ReaderOnIgnored ==
    /\ pc = "loop"
    /\ fsq /= <<>>
    /\ ~Handled(Head(fsq))
    /\ fsq' = Tail(fsq)
    /\ task' = [task EXCEPT !.ignored = @ + 1]
    /\ UNCHANGED <<chan, emitted>>
    /\ UNCHANGED <<disk, watching, pc, gate, paneVars, lineVars, ctlVars>>

\* A read pass in which a read fails (lines 921-924 and 955-958): the
\* records read before the failing read are dropped with the pass, the
\* cursor is where the reads got to, the error is sent as an Error message
\* and the task goes on.
ReadPassFail(p) ==
    /\ io = "fault"
    /\ task' = [task EXCEPT !.pos = p]
    /\ chan' = Append(chan, Msg("Error", "read"))
    /\ UNCHANGED emitted

\* A failing initial read that ends the task.
ReaderInitialReadFail_Ends ==
    /\ pc = "read0"
    /\ \E p \in task.pos..Len(disk[task.open]) : ReadPassFail(p)
    /\ pc' = "done"
    /\ UNCHANGED <<envVars, gate, paneVars, row_modifier, lineVars, ctlVars>>

\* reader, lines 914-925: the initial read fails.
ReaderInitialReadFail ==
    /\ pc = "read0"
    /\ \E p \in task.pos..Len(disk[task.open]) : ReadPassFail(p)
    /\ pc' = "loop"
    /\ UNCHANGED <<envVars, gate, paneVars, row_modifier, lineVars, ctlVars>>

\* reader, lines 945-960: the read pass of a data-modified event fails.
ReaderOnDataFail ==
    /\ pc = "loop"
    /\ fsq /= <<>>
    /\ Head(fsq).name = "watched"
    /\ Head(fsq).kind = "ModifyData"
    /\ fsq' = Tail(fsq)
    /\ \E p \in task.pos..Len(disk[task.open]) : ReadPassFail(p)
    /\ UNCHANGED <<disk, watching, pc, gate, paneVars, row_modifier,
                   lineVars, ctlVars>>

\* A reopen that goes on to read what the new file already holds.
ReaderOnCreate_Reads ==
    /\ pc = "loop"
    /\ fsq /= <<>>
    /\ Head(fsq).name = "watched"
    /\ Head(fsq).kind = "Create"
    /\ fsq' = Tail(fsq)
    /\ LET r == init_reader(CurFile, task.restrict, Some(task.enc), Detect(CurFile))
           d == read_data_from_file(CurFile, r.pos, task.restrict, r.enc)
       IN IF r.ok /\ ~InitReaderIoFails(r, Some(task.enc))
          THEN /\ task' = [task EXCEPT !.enc = r.enc, !.open = Len(disk),
                                       !.pos = d.pos, !.seek = r.seek]
               /\ chan' = IF d.data /= <<>>
                          THEN Append(chan, Msg("FileData", Texts(d.data)))
                          ELSE chan
               /\ emitted' = emitted \o [i \in 1..Len(d.data) |->
                                           [pass |-> "append", open |-> Len(disk),
                                            off |-> d.data[i].off,
                                            text |-> d.data[i].text]]
               /\ pc' = pc
          ELSE /\ pc' = "done"
               /\ UNCHANGED <<task, chan, emitted>>
    /\ UNCHANGED <<disk, watching, gate, paneVars, lineVars, ctlVars>>

\* reader, lines 941-944: a created event for the watched file reopens it
\* with the task's restriction decision and encoding.
ReaderOnCreate ==
    /\ pc = "loop"
    /\ fsq /= <<>>
    /\ Head(fsq).name = "watched"
    /\ Head(fsq).kind = "Create"
    /\ fsq' = Tail(fsq)
    /\ LET r == init_reader(CurFile, task.restrict, Some(task.enc), Detect(CurFile))
       IN IF r.ok /\ ~InitReaderIoFails(r, Some(task.enc))
          THEN /\ task' = [task EXCEPT !.enc = r.enc, !.open = Len(disk),
                                       !.pos = r.pos, !.seek = r.seek]
               /\ pc' = pc
          ELSE /\ pc' = "done"
               /\ UNCHANGED task
    /\ UNCHANGED <<disk, watching, chan, gate, emitted, paneVars, lineVars, ctlVars>>

\* The watched file is deleted and a new, empty file is created under the
\* same name while the directory is watched (a log rotation); the task
\* keeps its handle on the old file.
EnvRecreate(mode) ==
    /\ watching
    /\ io = "ok"
    /\ Len(disk) <= MaxRecreate
    /\ disk' = Append(disk, <<>>)
    /\ fsq' = Append(fsq, [kind |-> "Create", name |-> "watched"])
    /\ io' = mode
    /\ UNCHANGED <<watching, taskVars, chan, gate, paneVars, lineVars,
                   old, tab, holder>>

\* The Error messages the task has sent so far (the pane keeps every one
\* it receives).
NbErrors == Len(errors) + Len(SelectSeq(chan, LAMBDA m : m.tag = "Error"))

\* The kinds of notify events, and the events the loop does not act on.
EventKinds ==
    {"Create", "ModifyData", "ModifyMetadata", "ModifyName", "Remove", "Access"}

Noise ==
    {evt \in [kind : EventKinds, name : {"watched", "other"}] : ~Handled(evt)}

\* Something else happens in the watched directory: another file is
\* created, written or removed, or the watched file is touched, renamed,
\* removed or read.
EnvNoise(evt) ==
    /\ watching
    /\ evt \in Noise
    /\ task.ignored + Len(SelectSeq(fsq, LAMBDA e : ~Handled(e))) < MaxNoise
    /\ fsq' = Append(fsq, evt)
    /\ UNCHANGED <<disk, watching, taskVars, chan, gate, paneVars, lineVars,
                   ctlVars>>

\* The reads of the open file start to fail, and stop failing.
EnvFault ==
    /\ io = "ok"
    /\ NbErrors < MaxFaults
    /\ pc \in {"read0", "loop"}
    /\ io' = "fault"
    /\ UNCHANGED <<envVars, taskVars, chan, gate, paneVars, lineVars,
                   old, tab, holder>>

EnvRepair ==
    /\ io = "fault"
    /\ io' = "ok"
    /\ UNCHANGED <<envVars, taskVars, chan, gate, paneVars, lineVars,
                   old, tab, holder>>

\* ------------------------------------------------------ the LogFile pane
\* Filter::filter: None when there is no matcher, else the lines of `it`
\* the matcher matches, in order.
Filter_filter(f, it) ==
    IF IsSome(f.search.regex)
    THEN Some(SelectSeq(it, LAMBDA l : is_match(Unwrap(f.search.regex), l)))
    ELSE None

\* The pane as a record, for the steps of LogFile::ui.
Pane ==
    [lines |-> lines, filter_cache |-> filter_cache,
     recalculate_filter_cache |-> recalculate_filter_cache,
     restrict_filesize |-> restrict_filesize, row_modifier |-> row_modifier,
     errors |-> errors, encoding |-> encoding,
     scanned |-> 0]

\* A FileData handler that never extends the cache in place: it asks for a
\* recompute over the whole store on every batch.
OnFileData_Rescan(p, v) ==
    [p EXCEPT !.recalculate_filter_cache = TRUE, !.lines = @ \o v]

\* A FileData handler that shows the batch in place of the store.
OnFileData_Replace(p, v) ==
    [p EXCEPT !.recalculate_filter_cache = TRUE, !.lines = v]

\* LogFile::ui, lines 525-543: a FileData batch extends the cache by the
\* matches among the batch when a cache exists and the filter is active,
\* asks for a recompute when there is no cache, and extends the store.
OnFileData(p, v) ==
    LET f == p.row_modifier.filter
        active == f.search.string /= <<>> /\ f.filter /\ IsSome(f.search.regex)
        filtered == Filter_filter(f, v)
    IN IF IsSome(p.filter_cache)
       THEN IF active
            THEN IF IsSome(filtered)
                 THEN [p EXCEPT !.filter_cache = Some(Unwrap(@) \o Unwrap(filtered)),
                                !.lines = @ \o v,
                                !.scanned = @ + Len(v)]
                 ELSE [p EXCEPT !.recalculate_filter_cache = TRUE,
                                !.lines = @ \o v]
            ELSE [p EXCEPT !.lines = @ \o v]
       ELSE [p EXCEPT !.recalculate_filter_cache = TRUE,
                      !.lines = @ \o v]

\* LogFile::ui, lines 523-561: one message of the channel.
OnMessage(p, msg) ==
    CASE msg.tag = "FileData" -> OnFileData(p, msg.val)
      [] msg.tag = "ShowRestrictFileSizeDialog" ->
            [p EXCEPT !.restrict_filesize = "ShowRestrictFileSizeDialog"]
      [] msg.tag = "RestrictFileSize" ->
            [p EXCEPT !.restrict_filesize =
                IF msg.val THEN "RestrictedFileSize" ELSE "UnrestrictedFileSize"]
      [] msg.tag = "Error" -> [p EXCEPT !.errors = Append(@, msg.val)]
      [] msg.tag = "SetEncoding" -> [p EXCEPT !.encoding = msg.val]

\* A drain that handles the newest message of the channel first.
RECURSIVE Drain_NewestFirst(_, _)
Drain_NewestFirst(p, msgs) ==
    IF msgs = <<>> THEN p
    ELSE Drain_NewestFirst(OnMessage(p, msgs[Len(msgs)]),
                           SubSeq(msgs, 1, Len(msgs) - 1))

\* LogFile::ui, lines 520-574: try_recv until the channel is empty.
RECURSIVE Drain(_, _)
Drain(p, msgs) ==
    IF msgs = <<>> THEN p ELSE Drain(OnMessage(p, Head(msgs)), Tail(msgs))

\* A row cap that removes the newest lines instead of the oldest ones.
Evict_Back(ls) == IF Len(ls) > MAX_ROWS THEN SubSeq(ls, 1, MAX_ROWS) ELSE ls

\* LogFile::ui, lines 585-589: the row cap of restricted mode.
RECURSIVE Evict(_)
Evict(ls) == IF Len(ls) > MAX_ROWS THEN Evict(Tail(ls)) ELSE ls

\* LogFile::ui, lines 582-632: eviction in restricted mode; in the dialog
\* state a click on one of the two buttons sets the mode (the answer is
\* sent by the action).
GateStep(p, click) ==
    CASE p.restrict_filesize = "RestrictedFileSize" ->
            [p EXCEPT !.lines = Evict(@)]
      [] p.restrict_filesize = "ShowRestrictFileSizeDialog" /\ click = "restricted" ->
            [p EXCEPT !.restrict_filesize = "RestrictedFileSize"]
      [] p.restrict_filesize = "ShowRestrictFileSizeDialog" /\ click = "unrestricted" ->
            [p EXCEPT !.restrict_filesize = "UnrestrictedFileSize"]
      [] OTHER -> p

\* A recompute that keeps the old cache when the filter yields nothing
\* (no matcher).
Recompute_KeepOnFailure(p) ==
    LET f == p.row_modifier.filter
        full == Filter_filter(f, p.lines)
    IN IF p.recalculate_filter_cache
       THEN IF f.search.string = <<>> \/ ~f.filter
            THEN [p EXCEPT !.filter_cache = None,
                           !.recalculate_filter_cache = FALSE]
            ELSE [p EXCEPT !.filter_cache = IF IsSome(full) THEN full ELSE @,
                           !.recalculate_filter_cache = FALSE]
       ELSE p

\* A recompute that does not look at the apply flag: it filters whenever
\* there is a pattern.
Recompute_IgnoresApplyFlag(p) ==
    LET f == p.row_modifier.filter
        full == Filter_filter(f, p.lines)
    IN IF p.recalculate_filter_cache
       THEN IF f.search.string = <<>>
            THEN [p EXCEPT !.filter_cache = None,
                           !.recalculate_filter_cache = FALSE]
            ELSE [p EXCEPT !.filter_cache = full,
                           !.recalculate_filter_cache = FALSE,
                           !.scanned = IF IsSome(full) THEN @ + Len(p.lines) ELSE @]
       ELSE p

\* LogFile::ui, lines 634-644: the recompute of the cache when asked for.
Recompute(p) ==
    LET f == p.row_modifier.filter
        full == Filter_filter(f, p.lines)
    IN IF p.recalculate_filter_cache
       THEN IF f.search.string = <<>> \/ ~f.filter
            THEN [p EXCEPT !.filter_cache = None,
                           !.recalculate_filter_cache = FALSE]
            ELSE [p EXCEPT !.filter_cache = full,
                           !.recalculate_filter_cache = FALSE,
                           !.scanned = IF IsSome(full) THEN @ + Len(p.lines) ELSE @]
       ELSE p

\* LogFile::ui, lines 680-684: the rows shown are the cache when there is
\* one, the store otherwise.
View(p) == IF IsSome(p.filter_cache) THEN Unwrap(p.filter_cache) ELSE p.lines

\* A Search::ui that compiles only when there is no matcher: an edit of a
\* search that has a matcher leaves the old matcher in place.
Search_ui_KeepsMatcher(s, string, is_regex, case_insensitive) ==
    LET data_changed == \/ string /= s.string
                        \/ is_regex /= s.is_regex
                        \/ case_insensitive /= s.case_insensitive
        s1 == [s EXCEPT !.string = string, !.is_regex = is_regex,
                        !.case_insensitive = case_insensitive]
        compile == s1.string /= <<>> /\ ~IsSome(s1.regex)
    IN [s1 EXCEPT !.changed = compile \/ data_changed,
                  !.regex = IF compile THEN create_regex(s1) ELSE @]

\* A Search::ui whose failed compilation also empties the pattern text.
Search_ui_ClearsOnFailure(s, string, is_regex, case_insensitive) ==
    LET data_changed == \/ string /= s.string
                        \/ is_regex /= s.is_regex
                        \/ case_insensitive /= s.case_insensitive
        s1 == [s EXCEPT !.string = string, !.is_regex = is_regex,
                        !.case_insensitive = case_insensitive]
        changed == (s1.string /= <<>> /\ ~IsSome(s1.regex)) \/ data_changed
        failed == changed /\ ~IsSome(create_regex(s1))
    IN [s1 EXCEPT !.changed = changed,
                  !.string = IF failed THEN <<>> ELSE @,
                  !.regex = IF changed THEN create_regex(s1) ELSE @]

\* Search::ui, lines 163-205: the widgets hold the values the user leaves
\* in them this frame; the matcher is recompiled when one of the three
\* fields changed or when a non-empty pattern has no matcher.
Search_ui(s, string, is_regex, case_insensitive) ==
    LET data_changed == \/ string /= s.string
                        \/ is_regex /= s.is_regex
                        \/ case_insensitive /= s.case_insensitive
        s1 == [s EXCEPT !.string = string, !.is_regex = is_regex,
                        !.case_insensitive = case_insensitive]
        changed == (s1.string /= <<>> /\ ~IsSome(s1.regex)) \/ data_changed
    IN [s1 EXCEPT !.changed = changed,
                  !.regex = IF changed THEN create_regex(s1) ELSE @]

\* What the user does to the filter widgets in one frame: nothing, a new
\* pattern text, or a click on one of the three checkboxes.
NoEdit == [field |-> "none", string |-> <<>>]

\* Filter::ui, lines 222-232.
Filter_ui(f, edit) ==
    LET s == f.search
        string == IF edit.field = "string" THEN edit.string ELSE s.string
        is_regex == IF edit.field = "is_regex" THEN ~s.is_regex ELSE s.is_regex
        ci == IF edit.field = "case_insensitive"
              THEN ~s.case_insensitive ELSE s.case_insensitive
        checkbox_changed == edit.field = "filter"
        search == Search_ui(s, string, is_regex, ci)
    IN [search |-> search,
        filter |-> IF checkbox_changed THEN ~f.filter ELSE f.filter,
        changed |-> checkbox_changed \/ search.changed]

\* RowHighlight::ui, lines 263-280, with the rule's widgets left alone.
RowHighlight_ui(rh) ==
    [rh EXCEPT !.search = Search_ui(@, @.string, @.is_regex, @.case_insensitive)]

\* RowModifier::ui, lines 301-364.
RowModifier_ui(rm, edit) ==
    [filter |-> Filter_ui(rm.filter, edit),
     row_highlights |-> [i \in 1..Len(rm.row_highlights) |->
                            RowHighlight_ui(rm.row_highlights[i])]]

\* LogFile::ui after the channel was drained or the task spawned (lines
\* 582-743): the gate step, the recompute, the widgets (drawn only when the
\* store is not empty), and the request for a recompute in the next frame.
AfterDrain(p1, click, edit) ==
    LET p2 == GateStep(p1, click)
        p3 == Recompute(p2)
        p4 == IF p3.lines /= <<>>
              THEN [p3 EXCEPT !.row_modifier = RowModifier_ui(@, edit)]
              ELSE p3
    IN IF p4.row_modifier.filter.changed
       THEN [p4 EXCEPT !.recalculate_filter_cache = TRUE]
       ELSE p4

\* The inputs of a frame are possible: the buttons exist only in the dialog
\* state, the filter widgets only when the store is not empty.
InputOk(p1, click, edit) ==
    /\ click /= "none" => p1.restrict_filesize = "ShowRestrictFileSizeDialog"
    /\ edit.field /= "none" => Recompute(GateStep(p1, click)).lines /= <<>>

SetPane(p) ==
    /\ lines' = p.lines
    /\ filter_cache' = p.filter_cache
    /\ recalculate_filter_cache' = p.recalculate_filter_cache
    /\ restrict_filesize' = p.restrict_filesize
    /\ row_modifier' = p.row_modifier
    /\ errors' = p.errors
    /\ encoding' = p.encoding
    /\ scanned' = p.scanned

\* Buttons that send the opposite answer.
Answer_Swapped(click) ==
    IF click /= "none" /\ gate = "open"
    THEN (IF click = "restricted" THEN "false" ELSE "true")
    ELSE gate

\* The answer the dialog's button sends on the one-shot channel (lines
\* 610-628); the send fails, and is only logged, when the receiver is gone.
Answer(click) ==
    IF click /= "none" /\ gate = "open"
    THEN (IF click = "restricted" THEN "true" ELSE "false")
    ELSE gate

\* The task whose sender the dialog state holds once the messages of the
\* channel are handled: a gate request of the channel replaces the state
\* (lines 544-546).
HolderAfter ==
    IF \E i \in 1..Len(chan) : chan[i].tag = "ShowRestrictFileSizeDialog"
    THEN 0 ELSE holder

\* The one-shot channel of an aborted task whose sender the dialog state
\* holds: the sender is dropped when a message replaces the state (lines
\* 544-549), and carries the answer when a button is clicked (610-627).
HeldGateAfter(g, click) ==
    IF g /= "open" THEN g
    ELSE IF \E i \in 1..Len(chan) :
               chan[i].tag \in {"ShowRestrictFileSizeDialog", "RestrictFileSize"}
         THEN "dropped"
         ELSE IF click = "restricted" THEN "true"
              ELSE IF click = "unrestricted" THEN "false"
              ELSE g

OldAfterTick(click) ==
    [k \in 1..Len(old) |->
        IF k = holder /\ restrict_filesize = "ShowRestrictFileSizeDialog"
        THEN [old[k] EXCEPT !.gate = HeldGateAfter(@, click)]
        ELSE old[k]]

\* The reader task of the pane's channel has started and has not ended: it
\* owns the Sender `output` (line 492).
TaskAlive == pc \in {"start", "gate", "init", "watch", "read0", "loop"}

\* A create_receiver that gives its only Sender to the task.
Senders_NoClone == IF TaskAlive THEN 1 ELSE 0

\* The Senders of the channel the pane's receiver belongs to:
\* create_receiver keeps a clone in LogFile.sender (line 487), replaced
\* only by the next create_receiver, and moves the Sender into the task.
Senders == (IF receiver THEN 1 ELSE 0) + (IF TaskAlive THEN 1 ELSE 0)

\* try_recv on an empty channel without a Sender returns Disconnected.
Disconnected == receiver /\ Senders = 0

\* LogFile::ui, lines 563-571: after the messages, the drain ends on Empty,
\* or on Disconnected, which drops the receiver and clears the store.
AfterTryRecv(p) == IF Disconnected THEN [p EXCEPT !.lines = <<>>] ELSE p

\* LogFile::ui with a receiver (lines 519-574): the channel is drained.
LogFileUiDrain(click, edit) ==
    /\ tab
    /\ receiver
    /\ LET p1 == AfterTryRecv(Drain(Pane, chan))
           p4 == AfterDrain(p1, click, edit)
       IN /\ InputOk(p1, click, edit)
          /\ SetPane(p4)
          /\ holder' = IF p4.restrict_filesize = "ShowRestrictFileSizeDialog"
                       THEN HolderAfter ELSE 0
    /\ chan' = <<>>
    /\ gate' = IF HolderAfter = 0 THEN Answer(click) ELSE gate
    /\ old' = OldAfterTick(click)
    /\ receiver' = ~Disconnected
    /\ UNCHANGED <<envVars, taskVars, thread, lineVars, io, tab>>

\* The task of the pane as an aborted task: where it stands, its one-shot
\* gate channel, the messages sent since the abort, and what its watcher
\* has seen (an event is queued, the bytes written so far).
Aborted(g) ==
    [pc |-> pc, gate |-> g, late |-> 0,
     pending |-> fsq /= <<>>, seen |-> TotalBytes]

\* LogFile::ui in a frame in which the user picks an encoding in the menu
\* (lines 716-736, drawn when the store is not empty and the encoding is
\* known): after the rest of the frame reload_with_encoding (468-477) sets
\* the encoding, aborts the task and drops the handle and the receiver;
\* the messages of the channel go with the receiver.  The next frame
\* spawns a task.
LogFileUiReload(click, enc) ==
    /\ tab
    /\ receiver
    /\ Len(old) < MaxReload
    /\ LET p1 == AfterTryRecv(Drain(Pane, chan))
           p4 == AfterDrain(p1, click, NoEdit)
           dialog == p4.restrict_filesize = "ShowRestrictFileSizeDialog"
       IN /\ InputOk(p1, click, NoEdit)
          /\ p4.lines /= <<>>
          /\ IsSome(p4.encoding)
          /\ SetPane([p4 EXCEPT !.encoding = Some(enc)])
          /\ holder' = IF ~dialog THEN 0
                       ELSE IF HolderAfter = 0 THEN Len(old) + 1
                       ELSE HolderAfter
    /\ old' = Append(OldAfterTick(click),
                     Aborted(IF HolderAfter = 0 THEN Answer(click) ELSE gate))
    /\ receiver' = FALSE
    /\ thread' = FALSE
    /\ chan' = <<>>
    /\ gate' = "none"
    /\ pc' = "unspawned"
    /\ watching' = FALSE
    /\ fsq' = <<>>
    /\ UNCHANGED <<disk, task, emitted, lineVars, io, tab>>

\* TabPane::on_tab_close (lib.rs 192-207): the task is aborted and the
\* tile, with the LogFile in it, is removed: the receiver, the messages of
\* the channel and the sender of the dialog state are dropped.
OnTabClose ==
    /\ tab
    /\ tab' = FALSE
    /\ LET dropped == [k \in 1..Len(old) |->
                        IF k = holder /\ old[k].gate = "open"
                             /\ restrict_filesize = "ShowRestrictFileSizeDialog"
                        THEN [old[k] EXCEPT !.gate = "dropped"]
                        ELSE old[k]]
       IN old' = IF thread
                 THEN Append(dropped,
                             Aborted(IF gate = "open" THEN "dropped" ELSE gate))
                 ELSE dropped
    /\ holder' = 0
    /\ receiver' = FALSE
    /\ thread' = FALSE
    /\ chan' = <<>>
    /\ gate' = "none"
    /\ pc' = "unspawned"
    /\ watching' = FALSE
    /\ fsq' = <<>>
    /\ UNCHANGED <<disk, task, emitted, lines, filter_cache,
                   recalculate_filter_cache, restrict_filesize, row_modifier,
                   errors, encoding, scanned, lineVars, io>>

\* JoinHandle::abort takes effect when the task next yields at an .await.
\* An aborted task that was at or before an .await of its step (the stat,
\* init_reader's file calls, the reads of a pass) is cancelled there.
OldCancel(k) ==
    /\ k \in 1..Len(old)
    /\ old[k].pc \in {"start", "init", "watch", "read0"}
    /\ old' = [old EXCEPT ![k].pc = "done"]
    /\ UNCHANGED <<envVars, taskVars, chan, gate, paneVars, lineVars,
                   io, tab, holder>>

\* An aborted task that was past the last .await of its step runs on to
\* the step's output.send (lines 869-883, 890, 916-919, 950-953) before it
\* yields again: the message is sent after the abort.  The task ends at
\* its next .await, or with the error of a send to a dropped receiver;
\* after a pass it can also block in rx.recv() again.
OldLateSend(k, next) ==
    /\ k \in 1..Len(old)
    /\ old[k].late = 0
    /\ \/ old[k].pc \in {"start", "init", "read0"}
       \/ old[k].pc = "loop" /\ old[k].pending
    /\ next = "loop" => old[k].pc \in {"read0", "loop"}
    /\ old' = [old EXCEPT ![k].late = 1, ![k].pc = next, ![k].pending = FALSE]
    /\ UNCHANGED <<envVars, taskVars, chan, gate, paneVars, lineVars,
                   io, tab, holder>>

\* An aborted task blocked in rx.recv() of the gate (line 878), which is
\* not an .await: it stays there until the answer comes or the sender is
\* dropped, and is cancelled at the .await of init_reader that follows, or
\* ends with the error of recv.
OldGateWake(k) ==
    /\ k \in 1..Len(old)
    /\ old[k].pc = "gate"
    /\ old[k].gate \in {"true", "false", "dropped"}
    /\ old' = [old EXCEPT ![k].pc = "done"]
    /\ UNCHANGED <<envVars, taskVars, chan, gate, paneVars, lineVars,
                   io, tab, holder>>

\* An aborted task blocked in rx.recv() of the event loop (line 929), which
\* is not an .await: it stays there until its watcher delivers an event for
\* the file, and is cancelled at the first .await of the read pass or of
\* the reopen that follows.
OldEventWake(k) ==
    /\ k \in 1..Len(old)
    /\ old[k].pc = "loop"
    /\ old[k].pending \/ TotalBytes > old[k].seen
    /\ old' = [old EXCEPT ![k].pc = "done"]
    /\ UNCHANGED <<envVars, taskVars, chan, gate, paneVars, lineVars,
                   io, tab, holder>>

\* LogFile::ui without a receiver (lines 575-580): create_receiver spawns
\* the task on a new channel, with the pane's encoding as the override.
LogFileUiSpawn(edit) ==
    /\ tab
    /\ ~receiver
    /\ LET p1 == [Pane EXCEPT !.recalculate_filter_cache = TRUE]
       IN /\ InputOk(p1, "none", edit)
          /\ SetPane(AfterDrain(p1, "none", edit))
    /\ receiver' = TRUE
    /\ thread' = TRUE
    /\ chan' = <<>>
    /\ pc' = "start"
    /\ task' = [task EXCEPT !.override = encoding]
    /\ UNCHANGED <<envVars, gate, emitted, lineVars, ctlVars>>

Clicks == {"none", "restricted", "unrestricted"}

\* ------------------------------------------------- the ingestion pipeline
\* The reader task, the writer of the file and the pane's frames, with the
\* filter left at its default.
Next ==
    \/ \E b \in Bytes : EnvAppend(b)
    \/ ReaderGateAsk
    \/ ReaderGateSkip
    \/ ReaderGateRecv
    \/ ReaderInit
    \/ ReaderWatch
    \/ ReaderInitialRead
    \/ ReaderOnData
    \/ \E click \in Clicks : LogFileUiDrain(click, NoEdit)
    \/ LogFileUiSpawn(NoEdit)

Spec == Init /\ [][Next]_vars

\* -------------------------------------------------------- the tail planner
\* The pipeline opening a file that is not written to afterwards, for files
\* on both sides of the threshold.
InitTail ==
    /\ disk \in {<<c>> : c \in SeqsUpTo(Bytes, MaxTailLen)}
    /\ watching = FALSE
    /\ fsq = <<>>
    /\ InitTask
    /\ InitPane
    /\ row_modifier = RowModifier_default
    /\ InitLine
    /\ InitCtl

NextTail ==
    \/ ReaderGateAsk
    \/ ReaderGateSkip
    \/ ReaderGateRecv
    \/ ReaderInit
    \/ ReaderWatch
    \/ ReaderInitialRead
    \/ \E click \in Clicks : LogFileUiDrain(click, NoEdit)
    \/ LogFileUiSpawn(NoEdit)

SpecTail == InitTail /\ [][NextTail]_vars

\* ------------------------------------------------------- the filter cache
\* The pipeline with whole lines written to the file and the user editing
\* the filter widgets.
Patterns == {<<>>, <<"a">>, <<"(">>}
FilterLines == {<<"a", NL>>, <<"b", NL>>}
\* A file over the threshold, which opens with the size dialog.
BigFile == <<"a", NL, "b", NL>>

\* The edits of SpecFilter: the pattern text, the regex checkbox and the
\* filter checkbox (no modelled line has an upper-case letter, so the case
\* checkbox would not change a match).
Edits ==
    {NoEdit}
    \cup {[field |-> "string", string |-> p] : p \in Patterns}
    \cup {[field |-> f, string |-> <<>>] : f \in {"is_regex", "filter"}}

\* A writer appends one whole line.
EnvAppendLine(l) ==
    /\ pc /= "unspawned"
    /\ Len(CurFile) + Len(l) <= 2 * MaxDeliver
    /\ disk' = [disk EXCEPT ![Len(disk)] = @ \o l]
    /\ fsq' = IF watching
              THEN Append(fsq, [kind |-> "ModifyData", name |-> "watched"])
              ELSE fsq
    /\ UNCHANGED <<watching, taskVars, chan, gate, paneVars, lineVars, ctlVars>>

\* The filter as the application's storage restores it: the matcher and the
\* changed flags are not stored (serde(skip)).
PersistedFilters ==
    {[search |-> [string |-> p, is_regex |-> r, case_insensitive |-> FALSE,
                  regex |-> None, changed |-> FALSE],
      filter |-> f, changed |-> FALSE] :
        p \in Patterns, r \in BOOLEAN, f \in BOOLEAN}

InitFilter ==
    /\ disk \in {<<<<>>>>, <<BigFile>>}
    /\ watching = FALSE
    /\ fsq = <<>>
    /\ InitTask
    /\ InitPane
    /\ row_modifier \in {[filter |-> f, row_highlights |-> <<>>] :
                            f \in PersistedFilters}
    /\ InitLine
    /\ InitCtl

NextFilter ==
    \/ \E l \in FilterLines : EnvAppendLine(l)
    \/ ReaderGateAsk
    \/ ReaderGateSkip
    \/ ReaderGateRecv
    \/ ReaderInit
    \/ ReaderWatch
    \/ ReaderInitialRead
    \/ ReaderOnData
    \/ \E click \in Clicks, edit \in Edits : LogFileUiDrain(click, edit)
    \/ \E edit \in Edits : LogFileUiSpawn(edit)

SpecFilter == InitFilter /\ [][NextFilter]_vars

\* ------------------------------------------------------- line rendering
\* egui's TextFormat::default, and the red of a matched chunk.
TextFormat_default == [background |-> "TRANSPARENT", color |-> "GRAY"]

\* RowHighlight::default, lines 283-291.
RowHighlight_default ==
    [search |-> Search_default, bg_color |-> "DARK_GREEN",
     fg_color |-> "LIGHT_GREEN"]

\* A highlight loop without the break: every matching rule overwrites the
\* format, so the last matching rule wins.
RECURSIVE HighlightFormat_NoBreak(_, _, _)
HighlightFormat_NoBreak(rhs, i, text) ==
    IF i > Len(rhs) THEN TextFormat_default
    ELSE LET rest == HighlightFormat_NoBreak(rhs, i + 1, text)
             rh == rhs[i]
         IN IF rest /= TextFormat_default THEN rest
            ELSE IF rh.search.string /= <<>> /\ IsSome(rh.search.regex)
                    /\ is_match(Unwrap(rh.search.regex), text)
                 THEN [background |-> rh.bg_color, color |-> rh.fg_color]
                 ELSE TextFormat_default

\* generate_line, lines 369-384: the loop over the highlight rules from
\* rule i on.  A rule with an empty pattern is skipped, a rule without a
\* matcher or whose matcher does not match is passed over, and the first
\* rule that matches sets the format and ends the loop.
RECURSIVE HighlightFormat(_, _, _)
HighlightFormat(rhs, i, text) ==
    IF i > Len(rhs) THEN TextFormat_default
    ELSE LET rh == rhs[i]
         IN IF rh.search.string = <<>>
            THEN HighlightFormat(rhs, i + 1, text)
            ELSE IF IsSome(rh.search.regex)
                    /\ is_match(Unwrap(rh.search.regex), text)
                 THEN [background |-> rh.bg_color, color |-> rh.fg_color]
                 ELSE HighlightFormat(rhs, i + 1, text)

\* Regex::find_iter: the leftmost matches from offset `at` on, as
\* [start, end] offsets; the search goes on at the end of a match, one
\* character further after an empty match.
RECURSIVE find_iter(_, _, _)
find_iter(re, text, at) ==
    LET starts == {i \in at..Len(text) : MatchesAt(re, text, i)}
    IN IF at > Len(text) \/ starts = {} THEN <<>>
       ELSE LET st == CHOOSE i \in starts : \A k \in starts : i <= k
                en == st + Len(re.atoms)
            IN <<[start |-> st, end |-> en]>>
               \o find_iter(re, text, IF en = st THEN en + 1 ELSE en)

\* Chunks whose unmatched text always starts at the head of the line.
RECURSIVE MatchChunks_FromStart(_, _, _)
MatchChunks_FromStart(text, ms, last_end) ==
    IF ms = <<>>
    THEN <<[text |-> SubSeq(text, last_end + 1, Len(text)), format |-> None]>>
    ELSE LET m == Head(ms)
         IN (IF m.start > 0
             THEN <<[text |-> SubSeq(text, 1, m.start), format |-> None]>>
             ELSE <<>>)
            \o <<[text |-> SubSeq(text, m.start + 1, m.end),
                  format |-> Some([background |-> "TRANSPARENT",
                                   color |-> "RED"])]>>
            \o MatchChunks_FromStart(text, Tail(ms), m.end)

\* generate_line, lines 389-406: the chunks pushed for the matches ms with
\* last_end as it stands; an unmatched chunk is pushed before a match only
\* when the match does not start at offset 0.
RECURSIVE MatchChunks(_, _, _)
MatchChunks(text, ms, last_end) ==
    IF ms = <<>>
    THEN <<[text |-> SubSeq(text, last_end + 1, Len(text)), format |-> None]>>
    ELSE LET m == Head(ms)
         IN (IF m.start > 0
             THEN <<[text |-> SubSeq(text, last_end + 1, m.start),
                     format |-> None]>>
             ELSE <<>>)
            \o <<[text |-> SubSeq(text, m.start + 1, m.end),
                  format |-> Some([background |-> "TRANSPARENT",
                                   color |-> "RED"])]>>
            \o MatchChunks(text, Tail(ms), m.end)

\* A generate_line that marks the matches only while the filter is applied.
generate_line_OnlyWhenApplied(rm, text) ==
    [text |-> text,
     default_format |-> HighlightFormat(rm.row_highlights, 1, text),
     chunks |-> IF IsSome(rm.filter.search.regex) /\ rm.filter.filter
                THEN Some(MatchChunks(text,
                                      find_iter(Unwrap(rm.filter.search.regex),
                                                text, 0),
                                      0))
                ELSE None]

\* RowModifier::generate_line, lines 366-415.
generate_line(rm, text) ==
    [text |-> text,
     default_format |-> HighlightFormat(rm.row_highlights, 1, text),
     chunks |-> IF IsSome(rm.filter.search.regex)
                THEN Some(MatchChunks(text,
                                      find_iter(Unwrap(rm.filter.search.regex),
                                                text, 0),
                                      0))
                ELSE None]

\* The row modifier on its own: the user adds, edits and removes highlight
\* rules and edits the filter's pattern, one input per frame, and lines
\* are rendered with generate_line.
HighlightPatterns == {<<>>, <<"a">>, <<"(">>}
LinePatterns == {<<>>, <<"a">>}
Colours == {"DARK_GREEN", "BLUE"}
LineTexts == {<<"a", NL>>, <<"b", NL>>}

notRowModifier ==
    <<envVars, taskVars, chan, gate, lines, filter_cache,
      recalculate_filter_cache, restrict_filesize, errors, encoding,
      receiver, thread, scanned, ctlVars>>

\* RowModifier::ui, lines 324-334: the "+" button pushes a default rule,
\* which is drawn with the others in the same frame.
UiAddHighlight ==
    /\ Len(row_modifier.row_highlights) < MaxRules
    /\ row_modifier' =
          RowModifier_ui([row_modifier EXCEPT
                             !.row_highlights = Append(@, RowHighlight_default)],
                         NoEdit)
    /\ UNCHANGED <<notRowModifier, lineVars, ctlVars>>

\* What the user does to the widgets of one highlight rule in one frame:
\* a new pattern text, a click on the regex checkbox, or a new background
\* colour.
HighlightEdits ==
    {[field |-> "string", string |-> p, bg |-> "none"] : p \in HighlightPatterns}
    \cup {[field |-> "is_regex", string |-> <<>>, bg |-> "none"]}
    \cup {[field |-> "bg_color", string |-> <<>>, bg |-> c] : c \in Colours}

\* RowModifier::ui, lines 341-353, and RowHighlight::ui: the user edits
\* one widget of rule i; every rule and the filter are drawn.
UiEditHighlight(i, edit) ==
    /\ i \in 1..Len(row_modifier.row_highlights)
    /\ row_modifier' =
          [filter |-> Filter_ui(row_modifier.filter, NoEdit),
           row_highlights |->
              [j \in 1..Len(row_modifier.row_highlights) |->
                  LET rh == row_modifier.row_highlights[j]
                      s == rh.search
                  IN IF j = i
                     THEN [search |->
                              Search_ui(s,
                                        IF edit.field = "string"
                                        THEN edit.string ELSE s.string,
                                        IF edit.field = "is_regex"
                                        THEN ~s.is_regex ELSE s.is_regex,
                                        s.case_insensitive),
                           bg_color |-> IF edit.field = "bg_color"
                                        THEN edit.bg ELSE rh.bg_color,
                           fg_color |-> rh.fg_color]
                     ELSE RowHighlight_ui(rh)]]
    /\ row_modifier' /= row_modifier
    /\ UNCHANGED <<notRowModifier, lineVars, ctlVars>>

\* RowModifier::ui, lines 341-357: the "X" button of rule i removes it
\* after all rules were drawn.
UiRemoveHighlight(i) ==
    /\ i \in 1..Len(row_modifier.row_highlights)
    /\ LET rm == RowModifier_ui(row_modifier, NoEdit)
       IN row_modifier' =
             [rm EXCEPT !.row_highlights =
                 SubSeq(@, 1, i - 1) \o SubSeq(@, i + 1, Len(@))]
    /\ UNCHANGED <<notRowModifier, lineVars, ctlVars>>

\* RowModifier::ui with a new pattern in the filter's text field.
UiEditFilter(string) ==
    /\ string /= row_modifier.filter.search.string
    /\ row_modifier' =
          RowModifier_ui(row_modifier, [field |-> "string", string |-> string])
    /\ UNCHANGED <<notRowModifier, lineVars, ctlVars>>

\* RowModifier::ui with a click on the filter's "Filter?" checkbox.
UiToggleFilter ==
    /\ row_modifier' =
          RowModifier_ui(row_modifier, [field |-> "filter", string |-> <<>>])
    /\ UNCHANGED <<notRowModifier, lineVars, ctlVars>>

\* A row of the table is drawn: generate_line on its text.
Render(text) ==
    /\ gl_text' = text
    /\ gl_line' = Some(generate_line(row_modifier, text))
    /\ UNCHANGED <<notRowModifier, row_modifier, toolVars>>

NextLine ==
    \/ UiAddHighlight
    \/ \E i \in 1..MaxRules, edit \in HighlightEdits : UiEditHighlight(i, edit)
    \/ \E i \in 1..MaxRules : UiRemoveHighlight(i)
    \/ \E string \in LinePatterns : UiEditFilter(string)
    \/ \E text \in LineTexts : Render(text)

\* A pane that has not spawned its task, with RowModifier::default.
InitRowModifier ==
    /\ disk = <<<<>>>>
    /\ watching = FALSE
    /\ fsq = <<>>
    /\ InitTask
    /\ InitPane
    /\ row_modifier = RowModifier_default
    /\ InitLine
    /\ InitCtl

SpecLine == InitRowModifier /\ [][NextLine]_vars

\* ============================================================ properties
\* The lines of the FileData messages in the channel, in order.
RECURSIVE InFlightOf(_)
InFlightOf(msgs) ==
    IF msgs = <<>> THEN <<>>
    ELSE (IF Head(msgs).tag = "FileData" THEN Head(msgs).val ELSE <<>>)
         \o InFlightOf(Tail(msgs))

InFlight == InFlightOf(chan)

EmittedTexts == [i \in 1..Len(emitted) |-> emitted[i].text]

\* The lines the pane has taken from the channel so far.
Received == SubSeq(EmittedTexts, 1, Len(emitted) - Len(InFlight))

\* The filter is active: a pattern, a matcher, the apply flag.
FilterActive ==
    /\ row_modifier.filter.search.string /= <<>>
    /\ row_modifier.filter.filter
    /\ IsSome(row_modifier.filter.search.regex)

\* A non-empty pattern that did not compile.
InvalidPattern ==
    /\ row_modifier.filter.search.string /= <<>>
    /\ ~IsSome(row_modifier.filter.search.regex)

\* The lines of s the pane's matcher matches: the full recompute.
FullFilter(s) ==
    SelectSeq(s, LAMBDA l : is_match(Unwrap(row_modifier.filter.search.regex), l))

\* C1: with the filter active and no recompute pending, at the end of every
\* ui tick the cache equals the filter of the whole current store, in every
\* size-gate state (the restricted one, which evicts, included).
C1_CacheEqualsFullFilter ==
    (FilterActive /\ ~recalculate_filter_cache)
        => (IsSome(filter_cache) /\ Unwrap(filter_cache) = FullFilter(lines))

\* C1 outside the restricted state: the same equality where nothing evicts.
C1_HoldsWithoutEviction ==
    (FilterActive /\ ~recalculate_filter_cache
        /\ restrict_filesize /= "RestrictedFileSize")
        => (IsSome(filter_cache) /\ Unwrap(filter_cache) = FullFilter(lines))

\* C3 as stated: once a cache exists and the pattern no longer compiles,
\* every later step leaves the cache as it was for as long as the pattern
\* stays invalid.
C3_CacheKeptWhileInvalid ==
    [][(InvalidPattern /\ IsSome(filter_cache) /\ InvalidPattern')
        => filter_cache' = filter_cache]_vars

\* C3: while the pattern is one that does not compile, every ui tick that
\* changes the pane leaves the cache None: the tick after the failed
\* compile drops the prior matches, and the cache stays None on every
\* following tick until a pattern that compiles is supplied.
C3_CacheDroppedWhileInvalid ==
    [][(InvalidPattern /\ paneVars' /= paneVars) => filter_cache' = None]_vars

\* A cache with matches built from a valid pattern, the pattern now
\* replaced by one that failed to compile, the filter still applied.
C3_Witness ==
    /\ InvalidPattern
    /\ row_modifier.filter.filter
    /\ IsSome(filter_cache)
    /\ Unwrap(filter_cache) /= <<>>
    /\ recalculate_filter_cache

\* C8: a tick that drains FileData batches while a cache exists, the filter
\* is active and no recompute is pending evaluates the matcher on the lines
\* of the batches only, and appends their matches to the end of the cache.
C8_IncrementalOnlyBatch ==
    [][(/\ IsSome(filter_cache)
        /\ FilterActive
        /\ ~recalculate_filter_cache
        /\ InFlight /= <<>>
        /\ chan' = <<>>)
        => (/\ filter_cache' = Some(Unwrap(filter_cache) \o FullFilter(InFlight))
            /\ scanned' = Len(InFlight))]_vars

\* The end of a tick that extended an existing cache from a batch: fewer
\* lines were evaluated than the store holds, and the cache has a match
\* from before the batch.
C8_Witness ==
    /\ IsSome(filter_cache)
    /\ FilterActive
    /\ ~recalculate_filter_cache
    /\ scanned > 0
    /\ scanned < Len(lines)
    /\ Len(Unwrap(filter_cache)) > scanned

\* C2: in restricted mode the store never holds more than MAX_ROWS lines,
\* and it is a suffix of the sequence of all lines the pane has received:
\* lines leave the store from the front only.
C2_BoundedSuffix ==
    restrict_filesize = "RestrictedFileSize"
        => (Len(lines) <= MAX_ROWS /\ IsSuffix(lines, Received))

\* A restricted store at its cap after more than MAX_ROWS lines arrived,
\* the evicted line differing from the newest one.
C2_Witness ==
    /\ restrict_filesize = "RestrictedFileSize"
    /\ Len(lines) = MAX_ROWS
    /\ Len(Received) > MAX_ROWS
    /\ Received[1] /= Received[Len(Received)]

RECURSIVE SplitAcc(_, _)
SplitAcc(bytes, cur) ==
    IF bytes = <<>> THEN (IF cur = <<>> THEN <<>> ELSE <<cur>>)
    ELSE IF Head(bytes) = NL
         THEN <<Append(cur, NL)>> \o SplitAcc(Tail(bytes), <<>>)
         ELSE SplitAcc(Tail(bytes), Append(cur, Head(bytes)))

Records(bytes) == SplitAcc(bytes, <<>>)

\* The records without their newline.
Stripped(recs) ==
    [i \in 1..Len(recs) |->
        IF recs[i] /= <<>> /\ recs[i][Len(recs[i])] = NL
        THEN SubSeq(recs[i], 1, Len(recs[i]) - 1) ELSE recs[i]]

\* The records decoded with an encoding.
Decoded(enc, recs) == [i \in 1..Len(recs) |-> Decode(enc, recs[i])]

NewlineTerminated(bytes) == bytes /= <<>> /\ bytes[Len(bytes)] = NL

\* The lines a step adds to the emitted ones.
NewEmitted == SubSeq(emitted', Len(emitted) + 1, Len(emitted'))

NewTexts == [i \in 1..Len(NewEmitted) |-> NewEmitted[i].text]

\* The steps of the task: the initial pass, a pass on a data-modified event.
InitialPassStep == pc = "read0" /\ pc' = "loop"

AppendPassStep ==
    /\ pc = "loop"
    /\ fsq /= <<>>
    /\ fsq' = Tail(fsq)
    /\ Head(fsq).name = "watched"
    /\ Head(fsq).kind = "ModifyData"

OnlyInitialEmitted == \A i \in 1..Len(emitted) : emitted[i].pass = "initial"

\* C6 as stated: the initial pass over a file at or below the threshold
\* made of n newline-terminated records emits the n records, each line
\* being the record's text without its newline.
C6_InitialPassAsStated ==
    [][(InitialPassStep /\ Len(CurFile) <= MAX_FILE_SIZE
            /\ NewlineTerminated(CurFile))
        => NewTexts = Stripped(Records(CurFile))]_vars

\* C6: the initial pass over a file at or below the threshold (the task is
\* then restricted) made of n newline-terminated records emits the last
\* min(n, MAX_ROWS) records in file order, each line being the decoded
\* record with its newline; once the pane has drained that pass the store
\* is exactly those lines.
C6_InitialPass ==
    /\ [][(InitialPassStep /\ Len(CurFile) <= MAX_FILE_SIZE
              /\ NewlineTerminated(CurFile))
          => NewTexts = LastN(Decoded(task.enc, Records(CurFile)), MAX_ROWS)]_vars
    /\ []((pc = "loop" /\ Len(CurFile) <= MAX_FILE_SIZE /\ OnlyInitialEmitted
              /\ InFlight = <<>> /\ task.pos = Len(CurFile))
          => (/\ lines = LastN(Decoded(task.enc, Records(CurFile)), MAX_ROWS)
              /\ Len(lines) = Min(Len(Records(CurFile)), MAX_ROWS)))

\* The initial pass over a small file of more than MAX_ROWS newline-
\* terminated records has been drained into the store.
C6_Witness ==
    /\ pc = "loop"
    /\ Len(CurFile) <= MAX_FILE_SIZE
    /\ OnlyInitialEmitted
    /\ InFlight = <<>>
    /\ task.pos = Len(CurFile)
    /\ NewlineTerminated(CurFile)
    /\ Len(Records(CurFile)) > MAX_ROWS
    /\ Len(lines) = MAX_ROWS
    /\ lines[1] = <<NL>>

\* The records between the task's cursor and the end of its file.
SinceCursor ==
    Decoded(task.enc,
            Records(SubSeq(disk[task.open], task.pos + 1, Len(disk[task.open]))))

\* C7 as stated: the batch of a pass started by a data-modified event holds
\* exactly the records appended since the previous pass.
C7_AppendPassAsStated ==
    [][AppendPassStep => NewTexts = SinceCursor]_vars

\* C7: a pass started by a data-modified event reads from the cursor of
\* the previous pass to the end of the file: no emitted line starts before
\* that cursor, the cursor ends at the end of the file, and the batch holds
\* the records appended since the previous pass, or, in a restricted task,
\* the last MAX_ROWS of them when there are more.
C7_AppendPass ==
    [][AppendPassStep
        => (/\ NewTexts = IF task.restrict THEN LastN(SinceCursor, MAX_ROWS)
                          ELSE SinceCursor
            /\ \A i \in 1..Len(NewEmitted) : NewEmitted[i].off >= task.pos
            /\ task'.pos = Len(disk[task.open])
            /\ \A i \in 1..Len(emitted) : \A j \in 1..Len(NewEmitted) :
                  emitted[i].open = NewEmitted[j].open
                      => emitted[i].off < NewEmitted[j].off)]_vars

\* An append pass has emitted lines after the lines of the initial pass,
\* starting where the initial pass stopped.
C7_Witness ==
    /\ pc = "loop"
    /\ \E i \in 1..(Len(emitted) - 1) :
          /\ emitted[i].pass = "initial"
          /\ emitted[i + 1].pass = "append"
          /\ emitted[i + 1].off = emitted[i].off + Len(emitted[i].text)
    /\ task.pos = Len(CurFile)

\* C9: the task leaves its start by sending the size-gate request, with the
\* size of the file, exactly when that size is greater than MAX_FILE_SIZE
\* (otherwise it sends RestrictFileSize(true) and goes on); no other step
\* puts a request in the channel; and while it waits with no answer sent
\* the task stays waiting, emits nothing and reads nothing.
C9_SizeGate ==
    /\ [][(pc = "start" /\ pc' /= "start")
          => (/\ Len(chan') = Len(chan) + 1
              /\ SubSeq(chan', 1, Len(chan)) = chan
              /\ IF Len(CurFile) > MAX_FILE_SIZE
                 THEN /\ chan'[Len(chan')].tag = "ShowRestrictFileSizeDialog"
                      /\ chan'[Len(chan')].val = Len(CurFile)
                      /\ gate' = "open"
                      /\ pc' = "gate"
                 ELSE /\ chan'[Len(chan')].tag = "RestrictFileSize"
                      /\ gate' = gate
                      /\ pc' = "init")]_vars
    /\ [][(Len(chan') > Len(chan)
              /\ chan'[Len(chan')].tag = "ShowRestrictFileSizeDialog")
          => (pc = "start" /\ Len(CurFile) > MAX_FILE_SIZE)]_vars
    /\ [][(pc = "gate" /\ gate \notin {"true", "false"})
          => (/\ pc' = "gate"
              /\ task' = task
              /\ emitted' = emitted
              /\ Len(chan') <= Len(chan))]_vars

\* The request has reached the pane, which shows the dialog; no answer has
\* been sent and the task waits.
C9_Witness ==
    /\ pc = "gate"
    /\ gate = "open"
    /\ restrict_filesize = "ShowRestrictFileSizeDialog"
    /\ chan = <<>>
    /\ emitted = <<>>
    /\ task.size > MAX_FILE_SIZE

\* The offsets right after a newline that lies at or after offset `from`.
AfterNewline(content, from) ==
    {j \in (from + 1)..Len(content) : content[j] = NL}

\* A restricted task past init_reader on a file over the threshold.
TailCase ==
    /\ pc \in {"watch", "read0", "loop", "done"}
    /\ task.restrict
    /\ Len(CurFile) > MAX_FILE_SIZE

\* The offset of the tail seek, and the offset right after the first
\* newline at or after it (the end of the file when there is none).
TailTarget == Len(CurFile) - (MAX_FILE_SIZE + TAIL_SLACK)

TailFirst ==
    LET nls == AfterNewline(CurFile, TailTarget)
    IN IF nls = {} THEN Len(CurFile)
       ELSE CHOOSE j \in nls : \A k \in nls : j <= k

\* The initial pass of such a task has run and had something to read.
TailRead == TailCase /\ TailTarget >= 0 /\ pc = "loop" /\ TailFirst < Len(CurFile)

\* The tail seek of a restricted task on a file of size S over the
\* threshold: the seek goes to S - (MAX_FILE_SIZE + TAIL_SLACK), an offset
\* in [S - MAX_FILE_SIZE - TAIL_SLACK, S - MAX_FILE_SIZE]; reading starts
\* right after the first newline at or after that offset, no emitted line
\* starts before it, and nothing is emitted when no newline follows the
\* offset.  When the offset would lie before the start of the file the
\* seek fails: the task ends and nothing is emitted.
TailSeek ==
    TailCase
    => IF TailTarget < 0
       THEN pc = "done" /\ emitted = <<>>
       ELSE /\ pc /= "done"
            /\ task.seek = TailTarget
            /\ Len(CurFile) - MAX_FILE_SIZE - TAIL_SLACK <= task.seek
            /\ task.seek <= Len(CurFile) - MAX_FILE_SIZE
            /\ \A i \in 1..Len(emitted) : emitted[i].off >= TailFirst
            /\ pc \in {"watch", "read0"} => task.pos = TailFirst
            /\ (pc = "loop" /\ TailFirst = Len(CurFile)) => emitted = <<>>

\* The records of the file from the start of the tail read on.
TailRecords == Records(SubSeq(CurFile, TailFirst + 1, Len(CurFile)))

Colouring(text) ==
    {i \in 1..Len(row_modifier.row_highlights) :
        LET s == row_modifier.row_highlights[i].search
        IN /\ s.string /= <<>>
           /\ IsSome(s.regex)
           /\ is_match(Unwrap(s.regex), text)}

\* C4: a rendered line has the colours of the lowest-index rule among the
\* rules with a non-empty pattern and a matcher that matches the line, and
\* the default style when there is no such rule.
C4_FirstRuleWins ==
    [][\A text \in LineTexts :
          (gl_text' = text /\ gl_line' /= gl_line)
          => LET rules == Colouring(text)
                 fmt == Unwrap(gl_line').default_format
             IN IF rules = {} THEN fmt = TextFormat_default
                ELSE LET first == CHOOSE i \in rules : \A k \in rules : i <= k
                         rh == row_modifier.row_highlights[first]
                     IN fmt = [background |-> rh.bg_color,
                               color |-> rh.fg_color]]_vars

\* A rendered line that the first two rules both match, with different
\* colours: the line has the colours of the first.
C4_Witness ==
    /\ IsSome(gl_line)
    /\ {1, 2} \subseteq Colouring(gl_text)
    /\ row_modifier.row_highlights[1].bg_color
          /= row_modifier.row_highlights[2].bg_color
    /\ Unwrap(gl_line).default_format.background
          = row_modifier.row_highlights[1].bg_color
    /\ Unwrap(gl_line) = generate_line(row_modifier, gl_text)

\* ------------------------------------------------ where the reading starts
\* The step of the task through init_reader (lines 888-890 of reader).
InitReaderStep == pc = "init" /\ pc' /= "init"

\* C11: when the size the reader found is at most the threshold, or the
\* answer of the gate is unrestricted, init_reader succeeds and leaves the
\* cursor at offset 0, so that the initial read starts at the first byte.
C11_StartsAtZero ==
    [][(InitReaderStep /\ (task.size <= MAX_FILE_SIZE \/ ~task.restrict))
        => (pc' = "watch" /\ task'.pos = 0 /\ task'.seek = -1)]_vars

\* C12: for a restricted task on a file of size S over the threshold the
\* tail start is max(0, S - (MAX_FILE_SIZE + TAIL_SLACK)): init_reader
\* succeeds for every such S, and for S below MAX_FILE_SIZE + TAIL_SLACK the
\* reading starts at offset 0.
C12_ClampedTailStart ==
    [][(InitReaderStep /\ task.restrict /\ Len(CurFile) > MAX_FILE_SIZE)
        => /\ pc' = "watch"
           /\ TailTarget < 0 => task'.pos = 0
           /\ TailTarget >= 0 => task'.seek = TailTarget]_vars

\* ------------------------------------------------------ failures of the task
\* The last message of the channel after a step that sent one.
SentStep(tag) ==
    /\ Len(chan') = Len(chan) + 1
    /\ chan'[Len(chan')].tag = tag

\* C19: a failure that ends the task is sent as an Error message in the
\* step that ends it.
C19_EndingFailureIsSent ==
    [][(pc /= "done" /\ pc' = "done") => SentStep("Error")]_vars

\* ------------------------------------------------ a failing file system
\* A writer appends one whole line.
RotateLines == {<<"a", NL>>}

EnvWrite(l) ==
    /\ pc /= "unspawned"
    /\ TotalBytes + Len(l) <= 2 * MaxWrites
    /\ disk' = [disk EXCEPT ![Len(disk)] = @ \o l]
    /\ fsq' = IF watching
              THEN Append(fsq, [kind |-> "ModifyData", name |-> "watched"])
              ELSE fsq
    /\ UNCHANGED <<watching, taskVars, chan, gate, paneVars, lineVars, ctlVars>>

\* The pipeline on a file system that fails: the file can be missing or
\* unreadable when it is opened, and reads of the open file can fail for a
\* while.
InitFaults ==
    /\ disk \in {<<<<>>>>, <<BigFile>>}
    /\ watching = FALSE
    /\ fsq = <<>>
    /\ InitTask
    /\ InitPane
    /\ row_modifier = RowModifier_default
    /\ InitLine
    /\ io \in {"ok", "missing", "unreadable"}
    /\ old = <<>>
    /\ tab = TRUE
    /\ holder = 0

NextFaults ==
    \/ \E l \in RotateLines : EnvWrite(l)
    \/ EnvFault
    \/ EnvRepair
    \/ ReaderStatFail
    \/ ReaderGateAsk
    \/ ReaderGateSkip
    \/ ReaderGateRecv
    \/ ReaderInit
    \/ ReaderWatch
    \/ ReaderInitialRead
    \/ ReaderInitialReadFail
    \/ ReaderOnData
    \/ ReaderOnDataFail
    \/ \E click \in Clicks : LogFileUiDrain(click, NoEdit)
    \/ LogFileUiSpawn(NoEdit)

SpecFaults == InitFaults /\ [][NextFaults]_vars

\* ----------------------------------------------------------- log rotation
\* The pipeline on a file that is replaced by a new one, readable or not,
\* under the same name.  The first file can hold a byte that is not UTF-8,
\* for which the encoding detected differs from the one of the new file.
InitRotate ==
    /\ disk \in {<<<<>>>>, <<BigFile>>, <<<<"h", NL>>>>}
    /\ watching = FALSE
    /\ fsq = <<>>
    /\ InitTask
    /\ InitPane
    /\ row_modifier = RowModifier_default
    /\ InitLine
    /\ InitCtl

NextRotate ==
    \/ \E l \in RotateLines : EnvWrite(l)
    \/ \E mode \in {"ok", "unreadable"} : EnvRecreate(mode)
    \/ ReaderGateAsk
    \/ ReaderGateSkip
    \/ ReaderGateRecv
    \/ ReaderInit
    \/ ReaderWatch
    \/ ReaderInitialRead
    \/ ReaderOnData
    \/ ReaderOnCreate
    \/ \E click \in Clicks : LogFileUiDrain(click, NoEdit)
    \/ LogFileUiSpawn(NoEdit)

SpecRotate == InitRotate /\ [][NextRotate]_vars

\* C16: when the stat of the path or the File::open of init_reader fails at
\* the initial open, no data is emitted, at most one Error message is sent,
\* the task ends having sent exactly one, and once ended it is not spawned
\* again.
C16_OneErrorThenEnd ==
    /\ [](io \in {"missing", "unreadable"}
            => /\ emitted = <<>>
               /\ pc \in {"unspawned", "start", "gate", "init", "done"}
               /\ NbErrors <= 1
               /\ pc = "done" => NbErrors = 1)
    /\ [][(pc = "done" => pc' = "done")]_vars

\* A read pass (the initial one, or one started by a data-modified event)
\* in which a read fails.
FailingPassStep ==
    /\ io = "fault"
    /\ \/ pc = "read0" /\ pc' /= "read0"
       \/ AppendPassStep

\* C17: a read pass in which a read fails sends one Error message and
\* nothing else, emits nothing, and leaves the task waiting for events on
\* the same open file with its cursor not moved back; a later data-modified
\* event starts a pass that reads from that cursor to the end of the file.
C17_ReadErrorKeepsTask ==
    /\ [][FailingPassStep
            => /\ SentStep("Error")
               /\ pc' = "loop"
               /\ emitted' = emitted
               /\ task'.open = task.open
               /\ task'.pos >= task.pos]_vars
    /\ [][(AppendPassStep /\ io /= "fault")
            => /\ NewTexts = LastN(SinceCursor,
                                   IF task.restrict THEN MAX_ROWS
                                   ELSE Len(SinceCursor))
               /\ \A i \in 1..Len(NewEmitted) : NewEmitted[i].off >= task.pos
               /\ task'.pos = Len(disk[task.open])]_vars

\* The channel holds the Error message of a failed pass followed by the
\* FileData of a later pass of the same task, which is waiting again.
C17_Witness ==
    /\ pc = "loop"
    /\ \E i \in 1..(Len(chan) - 1) :
          /\ chan[i].tag = "Error"
          /\ chan[i].val = "read"
          /\ chan[i + 1].tag = "FileData"

\* The task takes a created event for the watched file off its queue.
CreateStep ==
    /\ pc = "loop"
    /\ fsq /= <<>>
    /\ fsq' = Tail(fsq)
    /\ Head(fsq).name = "watched"
    /\ Head(fsq).kind = "Create"

\* C18: after the initial open no failure ends the task: a task that has
\* opened its file stays alive through every step, the step that reopens
\* the file on a created event included.
C18_TaskSurvivesErrors ==
    [][(pc \in {"read0", "loop"} => pc' /= "done")]_vars

\* The cursor the reopen of a created file gives: 0, or for a restricted
\* task on a file over the threshold the position after the tail seek to
\* `target`.
ReopenedAt(target) ==
    IF task.restrict /\ Len(CurFile) > MAX_FILE_SIZE
    THEN /\ task'.seek = target
         /\ task'.pos = read_until(CurFile, target)
    ELSE /\ task'.seek = -1
         /\ task'.pos = 0

\* The reopen keeps the encoding and the restriction decision of the task
\* and sends nothing: no SetEncoding, no gate request.
ReopenKeepsDecisions ==
    /\ task'.enc = task.enc
    /\ task'.restrict = task.restrict
    /\ task'.override = task.override
    /\ task'.open = Len(disk)
    /\ chan' = chan
    /\ gate' = gate

\* C20: a created event for the watched file, the new file being readable,
\* reopens it with the encoding and the restriction decision of the first
\* open, without detection, SetEncoding or gate request, and the cursor
\* restarts at 0, or at the tail start max(0, S - (MAX_FILE_SIZE +
\* TAIL_SLACK)) for a restricted task on a new file over the threshold.
C20_ReopenAsFirstOpen ==
    [][(CreateStep /\ io = "ok")
        => /\ pc' = "loop"
           /\ ReopenKeepsDecisions
           /\ ReopenedAt(Max(0, TailTarget))]_vars

\* The same for the reopens that succeed: the seek goes to S -
\* (MAX_FILE_SIZE + TAIL_SLACK), which is then not negative.
ReopenWhenItSucceeds ==
    [][(CreateStep /\ pc' = "loop")
        => /\ ReopenKeepsDecisions
           /\ ReopenedAt(TailTarget)
           /\ task.restrict /\ Len(CurFile) > MAX_FILE_SIZE => TailTarget >= 0]_vars

\* A task whose first file was detected as WINDOWS_1252 has reopened a new
\* file of plain ASCII and is still decoding as WINDOWS_1252.
ReopenKeptEncoding ==
    /\ pc = "loop"
    /\ task.open = 2
    /\ task.enc = "WINDOWS_1252"
    /\ Detect(CurFile) = "UTF_8"
    /\ Len(CurFile) > 0

\* A restricted task has reopened a new file over the threshold at its tail.
ReopenAtTail ==
    /\ pc = "loop"
    /\ task.open = 2
    /\ task.restrict
    /\ task.seek >= 0

\* ------------------------------------------------- reload and tab close
\* The pipeline with a user who picks encodings in the menu and closes the
\* tab, and the tasks these abort.
InitReload ==
    /\ disk \in {<<<<"a", NL>>>>, <<BigFile>>}
    /\ watching = FALSE
    /\ fsq = <<>>
    /\ InitTask
    /\ InitPane
    /\ row_modifier = RowModifier_default
    /\ InitLine
    /\ InitCtl

NextReload ==
    \/ \E l \in RotateLines : EnvWrite(l)
    \/ ReaderGateAsk
    \/ ReaderGateSkip
    \/ ReaderGateRecv
    \/ ReaderInit
    \/ ReaderWatch
    \/ ReaderInitialRead
    \/ ReaderOnData
    \/ \E click \in Clicks : LogFileUiDrain(click, NoEdit)
    \/ LogFileUiSpawn(NoEdit)
    \/ \E click \in Clicks, enc \in Encodings : LogFileUiReload(click, enc)
    \/ OnTabClose
    \/ \E k \in 1..MaxReload : OldCancel(k)
    \/ \E k \in 1..MaxReload, next \in {"done", "loop"} : OldLateSend(k, next)
    \/ \E k \in 1..MaxReload : OldGateWake(k)
    \/ \E k \in 1..MaxReload : OldEventWake(k)

SpecReload == InitReload /\ [][NextReload]_vars

\* C13: a task aborted by a tab close or by a reload sends nothing more on
\* its channel, whatever it was doing when it was aborted.
C13_NoSendAfterAbort == \A k \in 1..Len(old) : old[k].late = 0

\* The tasks of the pane that have started and not ended: the task of its
\* receiver and the aborted ones.
AliveTasks ==
    Cardinality({k \in 1..Len(old) : old[k].pc /= "done"})
        + (IF pc \in {"unspawned", "done"} THEN 0 ELSE 1)

\* C14: at most one reader task of a LogFile is alive at any time.
C14_OneTaskAlive == AliveTasks <= 1

\* The gate requests that were sent and are neither answered nor abandoned:
\* the task is still waiting in rx.recv() and a sender of its one-shot
\* channel still exists.
OutstandingRequests ==
    Cardinality({k \in 1..Len(old) : old[k].pc = "gate" /\ old[k].gate = "open"})
        + (IF pc = "gate" /\ gate = "open" THEN 1 ELSE 0)

\* C15: at most one gate request of a LogFile is outstanding at any time.
C15_OneRequestOutstanding == OutstandingRequests <= 1

\* ------------------------------------------------- the store over a rotation
\* C21: the step that handles a created event sends nothing and leaves the
\* store alone, and the store at any time is the sequence of the lines the
\* pane has received from all files the path has named, in the order they
\* were emitted (a suffix of it in restricted mode): lines of the old file
\* stay, lines of the new file come after them.
C21_CreateKeepsStore ==
    /\ [][CreateStep => (lines' = lines /\ chan' = chan /\ emitted' = emitted)]_vars
    /\ [](/\ EmittedTexts = Received \o InFlight
          /\ IsSuffix(lines, Received)
          /\ restrict_filesize /= "RestrictedFileSize" => lines = Received)

\* The store holds a line read from the first file and after it a line
\* read from the file created in its place.
C21_Witness ==
    /\ InFlight = <<>>
    /\ \E i \in 1..(Len(emitted) - 1) :
          /\ emitted[i].open = 1
          /\ emitted[i + 1].open = 2
          /\ Len(lines) > Len(emitted) - i
          /\ lines[Len(lines)] = emitted[Len(emitted)].text

\* ----------------------------------------------------- events not acted on
\* The pipeline in a directory where other things happen.
InitEvents ==
    /\ disk \in {<<<<>>>>, <<<<"a", NL>>>>}
    /\ watching = FALSE
    /\ fsq = <<>>
    /\ InitTask
    /\ InitPane
    /\ row_modifier = RowModifier_default
    /\ InitLine
    /\ InitCtl

NextEvents ==
    \/ \E l \in RotateLines : EnvWrite(l)
    \/ \E evt \in Noise : EnvNoise(evt)
    \/ ReaderGateAsk
    \/ ReaderGateSkip
    \/ ReaderGateRecv
    \/ ReaderInit
    \/ ReaderWatch
    \/ ReaderInitialRead
    \/ ReaderOnData
    \/ ReaderOnIgnored
    \/ \E click \in Clicks : LogFileUiDrain(click, NoEdit)
    \/ LogFileUiSpawn(NoEdit)

SpecEvents == InitEvents /\ [][NextEvents]_vars

\* The task takes off its queue an event it does not act on.
IgnoredStep ==
    /\ pc = "loop"
    /\ fsq /= <<>>
    /\ fsq' = Tail(fsq)
    /\ ~Handled(Head(fsq))

\* C22: an event none of whose paths has the watched file's name, and an
\* event for the watched file that is neither a create nor a data
\* modification, leaves the cursor, the open file, the encoding and the
\* restriction decision of the task as they are, sends and emits nothing,
\* and leaves the task waiting for the next event.
C22_IgnoredEvents ==
    [][IgnoredStep
        => /\ task'.pos = task.pos
           /\ task'.open = task.open
           /\ task'.enc = task.enc
           /\ task'.restrict = task.restrict
           /\ chan' = chan
           /\ emitted' = emitted
           /\ gate' = gate
           /\ pc' = "loop"]_vars

\* The loop has skipped an event while bytes of the file were unread, and
\* is waiting with them still unread.
C22_Witness ==
    /\ pc = "loop"
    /\ task.ignored > 0
    /\ task.pos < Len(disk[task.open])
    /\ fsq /= <<>>
    /\ Handled(Head(fsq))

\* ---------------------------------------------------- the inactive filter
\* The filter does nothing: no pattern, the apply flag off, or a pattern
\* without a matcher.
FilterInactive ==
    \/ row_modifier.filter.search.string = <<>>
    \/ ~row_modifier.filter.filter
    \/ ~IsSome(row_modifier.filter.search.regex)

\* The pane of a frame that starts now, after its recompute step.
AfterRecompute ==
    Recompute(GateStep(Drain([Pane EXCEPT !.recalculate_filter_cache =
                                   @ \/ ~receiver],
                             IF receiver THEN chan ELSE <<>>),
                       "none"))

\* C23: in every frame, when the filter has no pattern, or its apply flag
\* is off, or its pattern has no matcher, the pane after the recompute step
\* has no cache and shows the whole store; and a frame in that state still
\* takes the batches of the channel into the store.
C23_InactiveShowsStore ==
    /\ [](FilterInactive
            => /\ AfterRecompute.filter_cache = None
               /\ View(AfterRecompute) = AfterRecompute.lines)
    /\ [][(FilterInactive /\ receiver /\ InFlight /= <<>> /\ chan' = <<>>)
            => /\ filter_cache' = None
               /\ IsSuffix(lines', lines \o InFlight)
               /\ Len(lines') >= Min(MAX_ROWS, Len(lines) + Len(InFlight))
               /\ restrict_filesize' /= "RestrictedFileSize"
                    => lines' = lines \o InFlight]_vars

\* A pane whose cache held matches, with the apply flag on and the pattern
\* replaced by one that does not compile: the recompute of the frame that
\* starts now drops the cache, and the store is shown.
C23_Witness ==
    /\ InvalidPattern
    /\ row_modifier.filter.filter
    /\ receiver
    /\ Len(lines) > 1
    /\ IsSome(filter_cache)
    /\ Unwrap(filter_cache) /= lines
    /\ View(AfterRecompute) = lines

\* ------------------------------------------------- the search widgets
\* The filter's widgets on their own: a filter restored from storage, a
\* user who edits the pattern and clicks the three checkboxes, one input
\* per frame, and lines drawn with the filter as it stands.
SearchEdits == Edits \cup {[field |-> "case_insensitive", string |-> <<>>]}

InitSearch ==
    /\ disk = <<<<>>>>
    /\ watching = FALSE
    /\ fsq = <<>>
    /\ InitTask
    /\ InitPane
    /\ row_modifier \in {[filter |-> f, row_highlights |-> <<>>] :
                            f \in PersistedFilters}
    /\ InitLine
    /\ InitCtl

\* RowModifier::ui in a frame with the edit.
UiFilter(edit) ==
    /\ row_modifier' = RowModifier_ui(row_modifier, edit)
    /\ UNCHANGED <<notRowModifier, lineVars, ctlVars>>

NextSearch ==
    \/ \E edit \in SearchEdits : UiFilter(edit)
    \/ \E text \in LineTexts : Render(text)

SpecSearch == InitSearch /\ [][NextSearch]_vars

\* The values the filter's three search widgets hold after the edit.
Entered(f, edit) ==
    [string |-> IF edit.field = "string" THEN edit.string ELSE f.search.string,
     is_regex |-> IF edit.field = "is_regex"
                  THEN ~f.search.is_regex ELSE f.search.is_regex,
     case_insensitive |-> IF edit.field = "case_insensitive"
                          THEN ~f.search.case_insensitive
                          ELSE f.search.case_insensitive]

\* The three search fields of a filter.
Fields(f) ==
    [string |-> f.search.string, is_regex |-> f.search.is_regex,
     case_insensitive |-> f.search.case_insensitive]

\* C24: whatever the user does to the filter's widgets in a frame, when
\* Search::ui recompiles and the compilation fails the matcher is None and
\* the pattern text, the regex flag and the case flag are the values the
\* widgets hold; every edit of a later frame whose values compile sets the
\* matcher again, to the matcher of those values.
C24_FailedCompileKeepsFields ==
    \A e \in Edits :
        LET f1 == Filter_ui(row_modifier.filter, e)
        IN (f1.search.changed /\ ~IsSome(create_regex(Entered(row_modifier.filter, e))))
           => /\ f1.search.regex = None
              /\ Fields(f1) = Entered(row_modifier.filter, e)
              /\ \A e2 \in Edits :
                    LET f2 == Filter_ui(f1, e2)
                    IN IsSome(create_regex(Entered(f1, e2)))
                       => /\ IsSome(f2.search.regex)
                          /\ f2.search.regex = create_regex(Entered(f1, e2))

\* A frame has just recompiled the pattern "(" in regex mode and failed:
\* the text and the flag are still there and there is no matcher.
C24_Witness ==
    /\ row_modifier.filter.search.changed
    /\ row_modifier.filter.search.string = <<"(">>
    /\ row_modifier.filter.search.is_regex
    /\ row_modifier.filter.search.regex = None

\* --------------------------------------------------- a stored encoding
\* The pipeline of a pane restored from the application's storage, which
\* keeps LogFile.encoding (serde(default), line 445): the task is spawned
\* with the stored encoding, if any, as its override.  Files hold high
\* bytes, so that the encoding detected can differ from the stored one.
EncLines == {<<"a", NL>>, <<"h", NL>>}
EncBigFile == <<"h", NL, "h", NL, "a", NL>>

InitEncoding ==
    /\ disk \in {<<<<"a", NL>>>>, <<<<"h", NL>>>>, <<EncBigFile>>}
    /\ watching = FALSE
    /\ fsq = <<>>
    /\ InitTask
    /\ lines = <<>>
    /\ filter_cache = None
    /\ recalculate_filter_cache = FALSE
    /\ restrict_filesize = "Initializing"
    /\ errors = <<>>
    /\ encoding \in {None} \cup {Some(e) : e \in Encodings}
    /\ receiver = FALSE
    /\ thread = FALSE
    /\ scanned = 0
    /\ row_modifier = RowModifier_default
    /\ InitLine
    /\ InitCtl

NextEncoding ==
    \/ \E l \in EncLines : EnvWrite(l)
    \/ EnvRecreate("ok")
    \/ ReaderGateAsk
    \/ ReaderGateSkip
    \/ ReaderGateRecv
    \/ ReaderInit
    \/ ReaderWatch
    \/ ReaderInitialRead
    \/ ReaderOnData
    \/ ReaderOnCreate
    \/ \E click \in Clicks : LogFileUiDrain(click, NoEdit)
    \/ LogFileUiSpawn(NoEdit)

SpecEncoding == InitEncoding /\ [][NextEncoding]_vars

\* The bytes of the record that starts at offset off of a file.
RawRecord(content, off) == SubSeq(content, off + 1, read_until(content, off))

NextMark ==
    \/ UiAddHighlight
    \/ \E edit \in HighlightEdits : UiEditHighlight(1, edit)
    \/ \E string \in LinePatterns : UiEditFilter(string)
    \/ UiToggleFilter
    \/ \E text \in LineTexts : Render(text)

SpecMark == InitRowModifier /\ [][NextMark]_vars

\* The texts of the chunks of a rendered line, and those of its chunks
\* that carry the match style.
ChunkTexts(chunks) == [i \in 1..Len(chunks) |-> chunks[i].text]
MatchedChunks(chunks) == SelectSeq(chunks, LAMBDA c : IsSome(c.format))

\* C26: for every line text, generate_line gives chunks exactly when the
\* filter's search has a matcher, with the apply flag on or off; the
\* chunks put together are the line, the chunks with the match style are
\* the matches of the filter's matcher in order, each in red; and the
\* chunks are the same whatever the apply flag and the highlight rules
\* are, while the whole-line format is the one of the highlight rules
\* whatever the filter is.
C26_ChunksFollowFilterMatcher ==
    \A text \in LineTexts :
        LET l == generate_line(row_modifier, text)
            re == row_modifier.filter.search.regex
        IN /\ IsSome(l.chunks) <=> IsSome(re)
           /\ l.default_format = HighlightFormat(row_modifier.row_highlights, 1, text)
           /\ IsSome(re) =>
                LET cs == Unwrap(l.chunks)
                    ms == find_iter(Unwrap(re), text, 0)
                IN /\ Flatten(ChunkTexts(cs)) = text
                   /\ ChunkTexts(MatchedChunks(cs))
                        = [i \in 1..Len(ms) |->
                             SubSeq(text, ms[i].start + 1, ms[i].end)]
                   /\ \A i \in 1..Len(cs) :
                        IsSome(cs[i].format) => Unwrap(cs[i].format).color = "RED"
                   /\ \A flag \in BOOLEAN :
                        \A rhs \in {<<>>, row_modifier.row_highlights} :
                            generate_line([filter |-> [row_modifier.filter
                                                          EXCEPT !.filter = flag],
                                           row_highlights |-> rhs], text).chunks
                               = l.chunks

\* A line was drawn while the apply flag is off: a highlight rule gave it
\* its whole-line colours and the filter's matcher a red chunk.
C26_Witness ==
    /\ ~row_modifier.filter.filter
    /\ IsSome(gl_line)
    /\ Unwrap(gl_line) = generate_line(row_modifier, gl_text)
    /\ Unwrap(gl_line).default_format /= TextFormat_default
    /\ IsSome(Unwrap(gl_line).chunks)
    /\ \E i \in 1..Len(Unwrap(Unwrap(gl_line).chunks)) :
          /\ IsSome(Unwrap(Unwrap(gl_line).chunks)[i].format)
          /\ Unwrap(Unwrap(gl_line).chunks)[i].text = <<"a">>

\* The bytes of the open file from the task's cursor on.
Remainder == SubSeq(disk[task.open], task.pos + 1, Len(disk[task.open]))

\* The last emitted record has no newline and is the end of what the task
\* has read of its open file.
FragmentPending ==
    /\ emitted /= <<>>
    /\ ~NewlineTerminated(emitted[Len(emitted)].text)
    /\ emitted[Len(emitted)].open = task.open

\* What a read pass emits can only be appended to the emitted records.
FragmentsStay ==
    [][\A i \in 1..Len(emitted) :
          ~NewlineTerminated(emitted[i].text)
             => /\ Len(emitted') >= i
                /\ emitted'[i] = emitted[i]]_vars

\* A read pass over data that does not end with a newline emits the bytes
\* after the last newline as the last record of its batch and leaves the
\* cursor at the end of the data.
FragmentEmitted ==
    [][((InitialPassStep \/ AppendPassStep)
        /\ Remainder /= <<>> /\ ~NewlineTerminated(Remainder))
         => /\ NewTexts /= <<>>
            /\ NewTexts[Len(NewTexts)]
                 = Decode(task.enc, Records(Remainder)[Len(Records(Remainder))])
            /\ ~NewlineTerminated(NewTexts[Len(NewTexts)])
            /\ task'.pos = Len(disk[task.open])
            /\ chan' = Append(chan, Msg("FileData", NewTexts))]_vars

\* Every emitted record is the decoding of the bytes at its offset.
EmittedAreBytes ==
    \A i \in 1..Len(emitted) :
        emitted[i].text
           = Decode(task.enc, SubSeq(disk[emitted[i].open], emitted[i].off + 1,
                                     emitted[i].off + Len(emitted[i].text)))

\* C27 as stated: a pass over data without a final newline emits the
\* fragment as a record and stops; the record emitted after a fragment
\* comes from a later pass and starts at the byte right after the
\* fragment, so the bytes that complete the line are always emitted, as a
\* record of their own.
C27_FragmentAsStated ==
    /\ FragmentEmitted
    /\ FragmentsStay
    /\ [](/\ EmittedAreBytes
          /\ \A i \in 1..(Len(emitted) - 1) :
                ~NewlineTerminated(emitted[i].text)
                   => /\ emitted[i + 1].pass = "append"
                      /\ emitted[i + 1].off = emitted[i].off + Len(emitted[i].text))

\* C27: a pass over data without a final newline emits the fragment as a
\* record and stops; the next pass starts at the byte right after the
\* fragment and never joins anything to it: its batch is the records of the
\* bytes appended since, all of them in an unrestricted task and the last
\* MAX_ROWS of them in a restricted one (so the bytes that complete the
\* line are a record of their own unless the pass drops them).
C27_FragmentIsARecord ==
    /\ FragmentEmitted
    /\ FragmentsStay
    /\ [](/\ EmittedAreBytes
          /\ \A i \in 1..(Len(emitted) - 1) :
                ~NewlineTerminated(emitted[i].text)
                   => /\ emitted[i + 1].pass = "append"
                      /\ emitted[i + 1].off >= emitted[i].off + Len(emitted[i].text))
    /\ [][(AppendPassStep /\ FragmentPending)
            => /\ task.pos = emitted[Len(emitted)].off
                               + Len(emitted[Len(emitted)].text)
               /\ NewTexts = IF task.restrict
                             THEN LastN(Decoded(task.enc, Records(Remainder)), MAX_ROWS)
                             ELSE Decoded(task.enc, Records(Remainder))
               /\ (Len(Records(Remainder)) <= MAX_ROWS /\ NewEmitted /= <<>>)
                     => NewEmitted[1].off = task.pos]_vars

\* The store holds the fragment "a" and, as the next line, the bytes that
\* were appended to it later.
C27_Witness ==
    \E i \in 1..(Len(lines) - 1) :
        /\ lines[i] = <<"a">>
        /\ lines[i + 1] = <<"a", NL>>
        /\ \E k \in 1..(Len(emitted) - 1) :
              /\ emitted[k].text = <<"a">>
              /\ emitted[k + 1].text = <<"a", NL>>
              /\ emitted[k + 1].off = emitted[k].off + 1

\* The offsets of a batch grow: its records are in file order.
InFileOrder(batch) ==
    \A i \in 1..(Len(batch) - 1) : batch[i].off < batch[i + 1].off

\* C28: from every cursor position in the file, a restricted pass returns
\* at most MAX_ROWS records, namely the last MAX_ROWS records between the
\* cursor and the end of the data, and an unrestricted pass returns every
\* one of them, in file order in both modes; and the batch a pass of the
\* task sends is bounded and ordered in the same way.
C28_PassCap ==
    /\ [](\A pos \in 0..Len(CurFile) : \A r \in BOOLEAN :
            LET batch == read_data_from_file(CurFile, pos, r, task.enc).data
                all == Decoded(task.enc,
                               Records(SubSeq(CurFile, pos + 1, Len(CurFile))))
            IN /\ InFileOrder(batch)
               /\ r => /\ Len(batch) <= MAX_ROWS
                       /\ Texts(batch) = LastN(all, MAX_ROWS)
               /\ ~r => Texts(batch) = all)
    /\ [][(InitialPassStep \/ AppendPassStep)
            => /\ InFileOrder(NewEmitted)
               /\ task.restrict => /\ Len(NewTexts) <= MAX_ROWS
                                   /\ NewTexts = LastN(SinceCursor, MAX_ROWS)
               /\ ~task.restrict => NewTexts = SinceCursor
               /\ NewTexts /= <<>> => chan' = Append(chan, Msg("FileData", NewTexts))
               /\ NewTexts = <<>> => chan' = chan]_vars

\* A restricted task has read a file of more than MAX_ROWS records in its
\* initial pass and has emitted the last MAX_ROWS of them only.
C28_Witness ==
    /\ task.restrict
    /\ task.seek = -1
    /\ pc = "loop"
    /\ OnlyInitialEmitted
    /\ Len(Records(SubSeq(CurFile, 1, task.pos))) > MAX_ROWS
    /\ Len(emitted) = MAX_ROWS
    /\ emitted[1].off > 0
    /\ emitted[MAX_ROWS].off + Len(emitted[MAX_ROWS].text) = task.pos

\* The matcher of a search, if present, is the one create_regex builds from
\* the search's three fields; in literal mode it matches the pattern's
\* characters one by one, metacharacters included.
Fresh(s) ==
    IsSome(s.regex)
       => /\ s.regex = create_regex(s)
          /\ Unwrap(s.regex).ci = s.case_insensitive
          /\ ~s.is_regex
               => Unwrap(s.regex).atoms
                    = [i \in 1..Len(s.string) |-> [any |-> FALSE, c |-> s.string[i]]]

\* C29: the filter's matcher is never stale: in every state a matcher that
\* is present is the one compiled from the current pattern, regex mode and
\* case flag; and whatever the user edits in the next frame, Search::ui
\* leaves a matcher that is compiled from the new values, and leaves one
\* whenever the new pattern is not empty and compiles.
C29_MatcherNeverStale ==
    /\ Fresh(row_modifier.filter.search)
    /\ \A e \in SearchEdits :
          LET s1 == Filter_ui(row_modifier.filter, e).search
          IN /\ Fresh(s1)
             /\ Fields([search |-> s1]) = Entered(row_modifier.filter, e)
             /\ (s1.string /= <<>> /\ IsSome(create_regex(s1))) => IsSome(s1.regex)
             /\ \A e2 \in SearchEdits :
                   Fresh(Filter_ui([search |-> s1, filter |-> FALSE,
                                    changed |-> FALSE], e2).search)

\* A frame has just compiled the pattern "(" in literal mode: the matcher
\* is the one of the escaped pattern.
C29_Witness ==
    /\ row_modifier.filter.search.changed
    /\ row_modifier.filter.search.string = <<"(">>
    /\ ~row_modifier.filter.search.is_regex
    /\ IsSome(row_modifier.filter.search.regex)
    /\ is_match(Unwrap(row_modifier.filter.search.regex), <<"a", "(", NL>>)

\* The user has reloaded with another encoding, the task spawned after the
\* reload has read the whole file from its start, and the pane has taken
\* everything it sent.
ReloadedAndRead ==
    /\ old /= <<>>
    /\ tab
    /\ receiver
    /\ pc = "loop"
    /\ chan = <<>>
    /\ task.seek = -1
    /\ task.pos = Len(CurFile)
    /\ encoding = Some(task.enc)

\* C30: after a reload with an encoding and the reads of the new task, the
\* store holds the records of the file once, decoded with the new encoding
\* (the last ones of them when the row cap has evicted the first): nothing
\* the previous task delivered is left next to them.
C30_ReloadReplacesStore ==
    ReloadedAndRead
       => /\ IsSuffix(lines, Decoded(task.enc, Records(CurFile)))
          /\ Len(lines) >= Min(MAX_ROWS, Len(Records(CurFile)))

\* The records of the bytes of the open file between two cursor positions.
MovedPast(from, to) ==
    Decoded(task.enc, Records(SubSeq(disk[task.open], from + 1, to)))

\* C31: whenever the task's cursor moves in the file it has open, the
\* records it moved past are emitted in that same step, once each and in
\* order (the last MAX_ROWS of them in a restricted task), and nothing at
\* or after the new cursor or before the old one is emitted: no record
\* the cursor has passed is lost or emitted twice, also in a pass that
\* ends with a read error.
C31_PassedRecordsEmittedOnce ==
    [][(pc \in {"read0", "loop"} /\ task'.open = task.open
        /\ (task'.pos /= task.pos \/ emitted' /= emitted))
         => /\ NewTexts = IF task.restrict
                          THEN LastN(MovedPast(task.pos, task'.pos), MAX_ROWS)
                          ELSE MovedPast(task.pos, task'.pos)
            /\ \A i \in 1..Len(NewEmitted) :
                  /\ NewEmitted[i].off >= task.pos
                  /\ NewEmitted[i].off < task'.pos
            /\ NewTexts /= <<>> => chan' = Append(chan, Msg("FileData", NewTexts))]_vars

\* ------------------------------------------------------- the end of a task
\* The pipeline with everything that ends a task: a file that is missing
\* or unreadable at the open, a recreated file that cannot be reopened, one
\* reload with another encoding, and the close of the tab.
InitEnd ==
    /\ disk \in {<<<<"a", NL>>>>, <<BigFile>>}
    /\ watching = FALSE
    /\ fsq = <<>>
    /\ InitTask
    /\ InitPane
    /\ row_modifier = RowModifier_default
    /\ InitLine
    /\ io \in {"ok", "missing", "unreadable"}
    /\ old = <<>>
    /\ tab = TRUE
    /\ holder = 0

\* The first reload of the pane.
LogFileUiReloadOnce(click, enc) ==
    /\ old = <<>>
    /\ LogFileUiReload(click, enc)

NextEnd ==
    \/ \E l \in RotateLines : EnvWrite(l)
    \/ EnvRecreate("unreadable")
    \/ ReaderStatFail
    \/ ReaderGateAsk
    \/ ReaderGateSkip
    \/ ReaderGateRecv
    \/ ReaderInit
    \/ ReaderWatch
    \/ ReaderInitialRead
    \/ ReaderOnData
    \/ ReaderOnCreate
    \/ \E click \in Clicks : LogFileUiDrain(click, NoEdit)
    \/ LogFileUiSpawn(NoEdit)
    \/ \E click \in Clicks, enc \in Encodings : LogFileUiReloadOnce(click, enc)
    \/ OnTabClose
    \/ OldCancel(1)
    \/ \E next \in {"done", "loop"} : OldLateSend(1, next)
    \/ OldGateWake(1)
    \/ OldEventWake(1)

SpecEnd == InitEnd /\ [][NextEnd]_vars

\* The step is a reload with an encoding or the close of the tab.
DropsReceiver == Len(old') > Len(old) \/ (tab /\ ~tab')

\* C32: a pane that has a receiver never observes Disconnected, since it
\* holds a Sender of the receiver's channel itself; so the receiver goes
\* only with a reload or with the tab, a store that is not empty never
\* becomes empty, a task that has ended is not replaced while the receiver
\* is there, and a task is spawned only by a pane without a receiver:
\* the new pane, or the pane after a reload.
C32_NoDisconnect ==
    /\ [](~Disconnected)
    /\ [][(receiver /\ ~receiver') => DropsReceiver]_vars
    /\ [][(lines /= <<>> /\ tab') => lines' /= <<>>]_vars
    /\ [][(pc = "done" /\ receiver /\ ~DropsReceiver)
            => (pc' = "done" /\ receiver' /\ Len(lines') >= Min(Len(lines), MAX_ROWS))]_vars
    /\ [][(pc' = "start" /\ pc /= "start")
            => /\ ~receiver
               /\ pc = "unspawned"
               /\ (emitted = <<>> /\ old = <<>>) \/ old /= <<>>]_vars

\* The task has ended with an error after it delivered lines, and the pane
\* has ticked since: it still has its receiver and its lines.
C32_Witness ==
    /\ pc = "done"
    /\ tab
    /\ receiver
    /\ chan = <<>>
    /\ lines /= <<>>
    /\ Len(disk) > 1

\* ------------------------------------------------------------- delivery
\* The pipeline with a writer of whole lines, a task that is scheduled and
\* woken by its events, and a pane that keeps ticking (the task asks for a
\* repaint after every send, lines 918 and 952).
InitDeliver ==
    /\ disk \in {<<<<>>>>, <<BigFile>>}
    /\ watching = FALSE
    /\ fsq = <<>>
    /\ InitTask
    /\ InitPane
    /\ row_modifier = RowModifier_default
    /\ InitLine
    /\ InitCtl

Tick == \E click \in Clicks : LogFileUiDrain(click, NoEdit)

NextDeliver ==
    \/ \E l \in RotateLines : EnvWrite(l)
    \/ ReaderGateAsk
    \/ ReaderGateSkip
    \/ ReaderGateRecv
    \/ ReaderInit
    \/ ReaderWatch
    \/ ReaderInitialRead
    \/ ReaderOnData
    \/ Tick
    \/ LogFileUiSpawn(NoEdit)

SpecDeliver ==
    /\ InitDeliver
    /\ [][NextDeliver]_vars
    /\ WF_vars(ReaderInitialRead)
    /\ WF_vars(ReaderOnData)
    /\ WF_vars(Tick)

\* The offsets of the file's records.
RecordStarts ==
    {m \in 0..(Len(CurFile) - 1) : m = 0 \/ CurFile[m] = NL}

\* The offsets of the records the pane has taken from the channel and
\* appended to its store.
DeliveredOffs ==
    {emitted[i].off : i \in 1..(Len(emitted) - Len(InFlight))}

\* The record at offset m was passed by the cursor of a restricted task in
\* a pass that emitted MAX_ROWS later records: the row cap dropped it.
DroppedByCap(m) ==
    /\ task.restrict
    /\ m < task.pos
    /\ \A i \in 1..Len(emitted) : emitted[i].off /= m
    /\ Cardinality({i \in 1..Len(emitted) : emitted[i].off > m}) >= MAX_ROWS

\* C33 as stated: every record that is in the file and not yet read while
\* the task is in its event loop, so appended after the initial pass, is
\* eventually delivered to the store.
C33_AppendsDeliveredAsStated ==
    \A m \in 0..(2 * MaxWrites) :
        (pc = "loop" /\ m \in RecordStarts /\ m >= task.pos)
            ~> (m \in DeliveredOffs)

\* C33: the watch is registered before the initial pass, so every append
\* from then on leaves an event in the queue; and every record that is in
\* the file and not yet read while the task is in its event loop is
\* eventually delivered to the store, unless the row cap of a restricted
\* pass drops it.
C33_AppendsDelivered ==
    /\ [](pc \in {"read0", "loop"} => watching)
    /\ [][(watching /\ disk' /= disk)
            => (fsq' = Append(fsq, [kind |-> "ModifyData", name |-> "watched"]))]_vars
    /\ \A m \in 0..(2 * MaxWrites) :
          (pc = "loop" /\ m \in RecordStarts /\ m >= task.pos)
              ~> (m \in DeliveredOffs \/ DroppedByCap(m))

\* A line appended after the initial pass was read on its event, taken
\* from the channel by the pane and is in the store.
C33_Witness ==
    /\ pc = "loop"
    /\ \E i \in 1..Len(emitted) :
          /\ emitted[i].pass = "append"
          /\ emitted[i].off \in DeliveredOffs
          /\ \E k \in 1..Len(lines) : lines[k] = emitted[i].text
    /\ task.pos = Len(CurFile)

\* C34: the step that handles a created event emits nothing and sends
\* nothing; when it succeeds the task has the new file open with its
\* cursor where the reopen put it, before every byte init_reader did not
\* skip, and nothing of a file it had not open before has been emitted;
\* and every record of a file created later than the first is emitted by
\* the pass of a data-modified event.
C34_CreateReadsNothing ==
    /\ [][CreateStep => (emitted' = emitted /\ chan' = chan)]_vars
    /\ [][(CreateStep /\ pc' = "loop")
            => /\ task'.open = Len(disk)
               /\ ReopenedAt(TailTarget)
               /\ task.open /= Len(disk)
                    => \A i \in 1..Len(emitted) : emitted[i].open /= task'.open]_vars
    /\ [][(\E i \in 1..Len(NewEmitted) : NewEmitted[i].open > 1)
            => AppendPassStep]_vars

\* The task has reopened a created file that already holds a line: its
\* cursor is at the start, nothing of the new file has been emitted, and
\* the data-modified event that will make it read is still in the queue.
C34_Witness ==
    /\ pc = "loop"
    /\ task.open = 2
    /\ task.pos = 0
    /\ Len(CurFile) > 0
    /\ \A i \in 1..Len(emitted) : emitted[i].open = 1
    /\ fsq /= <<>>
    /\ Head(fsq).kind = "ModifyData"

\* ---------------------------------------------------------- the size gate
\* The reader task holds a decision: it has passed the gate.
Decided == pc \notin {"unspawned", "start", "gate"}

\* The step is a frame in which a button of the dialog answers the open
\* request.
AnswerStep == gate = "open" /\ gate' \in {"true", "false"}

\* The frame handles a message of the given tag.
Handles(tag) == \E i \in 1..Len(chan) : chan[i].tag = tag /\ chan' = <<>>

\* C35: the pane's size-gate state agrees with the task's decision.  A task
\* that finds the file at or below MAX_FILE_SIZE decides for the restricted
\* mode with no request, and the pane follows when it handles the message.
\* The pane reaches the dialog only from a request, leaves it only by a
\* button, which answers the request once and with true exactly when the new
\* state is RestrictedFileSize, and the task takes the answer as its
\* decision.  Once the task has decided and the channel is drained, the
\* pane is in RestrictedFileSize exactly when the decision is true.
C35_GateAgrees ==
    /\ [][(pc = "start" /\ pc' /= "start" /\ ~(Len(CurFile) > MAX_FILE_SIZE))
            => (task'.restrict /\ gate' = gate /\ pc' = "init")]_vars
    /\ [][(restrict_filesize' /= restrict_filesize)
            => CASE restrict_filesize' = "ShowRestrictFileSizeDialog" ->
                       Handles("ShowRestrictFileSizeDialog") /\ gate' = "open"
                 [] restrict_filesize' = "UnrestrictedFileSize" ->
                       AnswerStep /\ gate' = "false"
                 [] restrict_filesize' = "RestrictedFileSize" ->
                       \/ AnswerStep /\ gate' = "true"
                       \/ Handles("RestrictFileSize") /\ gate' = gate
                 [] OTHER -> FALSE]_vars
    /\ [][AnswerStep
            => /\ gate' = "true" <=> restrict_filesize' = "RestrictedFileSize"
               /\ gate' = "false" <=> restrict_filesize' = "UnrestrictedFileSize"]_vars
    /\ [][(gate \in {"true", "false"} /\ gate' /= gate)
            => (/\ gate' = "none"
                /\ pc = "gate" /\ pc' = "init"
                /\ task'.restrict = (gate = "true")
                /\ restrict_filesize' = restrict_filesize)]_vars
    /\ [](Decided /\ chan = <<>>
            => (restrict_filesize = "RestrictedFileSize" <=> task.restrict))

\* The task was asked for the unrestricted mode and has gone on with it.
C35_Witness ==
    /\ Decided
    /\ chan = <<>>
    /\ task.size > MAX_FILE_SIZE
    /\ ~task.restrict
    /\ restrict_filesize = "UnrestrictedFileSize"

\* ------------------------------------------------- the order of messages
\* The position of the task in reader (lines 843-975), in program order.
Stage(p) ==
    CASE p = "unspawned" -> 0
      [] p = "start" -> 1
      [] p = "gate" -> 2
      [] p = "init" -> 3
      [] p = "watch" -> 4
      [] p = "read0" -> 5
      [] p = "loop" -> 6
      [] p = "done" -> 7

\* The step is an output.send of the task: one message is added at the end
\* of the channel.
Sends == Len(chan') = Len(chan) + 1 /\ SubSeq(chan', 1, Len(chan)) = chan

SendsTag(tags) == Sends /\ chan'[Len(chan')].tag \in tags

GateTags == {"ShowRestrictFileSizeDialog", "RestrictFileSize"}

\* C36 as stated: every task opens with a gate event, every message other
\* than a gate event is sent after the gate is resolved, and a task that
\* ends has sent its SetEncoding.
C36_OrderAsStated ==
    /\ [][(pc = "start" /\ pc' /= "start") => SendsTag(GateTags)]_vars
    /\ [][SendsTag({"SetEncoding", "FileData", "Error"}) => Decided]_vars
    /\ [][(pc /= "done" /\ pc' = "done") => Stage(pc) > Stage("init")]_vars

\* C36: the task only moves forward through reader, and what it sends
\* follows its position.  A gate event is sent by the step that leaves the
\* start, and by no other; SetEncoding by the step from init_reader to the
\* watch, and by no other, so at most once and only with the gate resolved;
\* FileData only by a read pass, which comes after both.  An Error is sent
\* by a read pass or, as the only message of the task, by the failing stat
\* that ends it; a task whose init_reader fails ends with no SetEncoding.
C36_Order ==
    /\ [][Stage(pc') >= Stage(pc)]_vars
    /\ [][(chan' /= chan) => (Sends \/ chan' = <<>>)]_vars
    /\ [][SendsTag(GateTags) <=> (pc = "start" /\ pc' \in {"gate", "init"})]_vars
    /\ [][SendsTag({"RestrictFileSize"}) => chan'[Len(chan')].val]_vars
    /\ [][SendsTag({"SetEncoding"}) <=> (pc = "init" /\ pc' = "watch")]_vars
    /\ [][SendsTag({"FileData"})
            => (pc \in {"read0", "loop"} /\ Decided /\ emitted' /= emitted)]_vars
    /\ [][SendsTag({"Error"})
            => (\/ pc = "start" /\ pc' = "done"
                \/ pc \in {"read0", "loop"} /\ pc' = "loop")]_vars
    /\ [][(pc /= "done" /\ pc' = "done")
            => (pc \in {"init", "watch", "loop"} => chan' = chan)]_vars

\* A task past its SetEncoding whose read pass has sent records, with a
\* write of the file still to be handled.
C36_Witness ==
    /\ pc = "loop"
    /\ emitted /= <<>>
    /\ \E i \in 1..Len(chan) : chan[i].tag = "FileData"
    /\ \E i \in 1..Len(chan) : chan[i].tag = "SetEncoding"
    /\ \A i, j \in 1..Len(chan) :
          (chan[i].tag = "SetEncoding" /\ chan[j].tag = "FileData") => i < j

\* ------------------------------------------------- the chunks of a line
\* generate_line on its own: the user sets the filter's pattern and lines
\* over two letters are drawn, with matches at the head of the line, at
\* its end and next to each other.
MaxLineLen == 3
ChunkLines == SeqsUpTo({"a", "b"}, MaxLineLen)
ChunkPatterns == {<<>>, <<"a">>, <<"b">>, <<"a", "a">>, <<"a", "b">>}

NextChunk ==
    \/ \E string \in ChunkPatterns : UiEditFilter(string)
    \/ \E text \in ChunkLines : Render(text)

SpecChunk == InitRowModifier /\ [][NextChunk]_vars

\* The offsets the chunks cover when laid end to end from offset `at`.
RECURSIVE Spans(_, _)
Spans(chunks, at) ==
    IF chunks = <<>> THEN <<>>
    ELSE <<[start |-> at, end |-> at + Len(Head(chunks).text)]>>
         \o Spans(Tail(chunks), at + Len(Head(chunks).text))

\* The spans of the chunks that carry a format.
MarkedSpans(chunks) ==
    LET sp == Spans(chunks, 0)
        RECURSIVE Pick(_)
        Pick(i) == IF i > Len(chunks) THEN <<>>
                   ELSE (IF IsSome(chunks[i].format) THEN <<sp[i]>> ELSE <<>>)
                        \o Pick(i + 1)
    IN Pick(1)

\* ms are the non-overlapping leftmost-first matches of re in text: each
\* is a match, they come in order without overlap, and every offset at
\* which re matches is the start of one of them or lies inside one.
LeftmostFirst(re, text, ms) ==
    /\ \A i \in 1..Len(ms) :
          /\ MatchesAt(re, text, ms[i].start)
          /\ ms[i].end = ms[i].start + Len(re.atoms)
    /\ \A i \in 1..(Len(ms) - 1) :
          ms[i].end <= ms[i + 1].start /\ ms[i].start < ms[i + 1].start
    /\ \A k \in 0..Len(text) :
          MatchesAt(re, text, k)
            => \E i \in 1..Len(ms) :
                  ms[i].start = k \/ (ms[i].start < k /\ k < ms[i].end)

\* C37: whenever a line is drawn while the filter has a matcher, its
\* chunks laid end to end are the line; the chunks with a format cover, in
\* order, exactly the non-overlapping leftmost-first matches of the
\* matcher, each in red on the default background; and every other chunk
\* has no format.
C37_ChunksTileTheLine ==
    [][(<<gl_text, gl_line>>' /= <<gl_text, gl_line>>
            /\ IsSome(row_modifier.filter.search.regex))
         => LET re == Unwrap(row_modifier.filter.search.regex)
                text == gl_text'
                cs == Unwrap(Unwrap(gl_line').chunks)
                marked == MarkedSpans(cs)
            IN /\ IsSome(Unwrap(gl_line').chunks)
               /\ Flatten(ChunkTexts(cs)) = text
               /\ LeftmostFirst(re, text, marked)
               /\ marked = find_iter(re, text, 0)
               /\ \A i \in 1..Len(cs) :
                     cs[i].format \in {None, Some([background |-> "TRANSPARENT",
                                                   color |-> "RED"])}]_vars

\* The line "aa" was drawn with the matcher of "a": a match at offset 0,
\* a second one next to it that ends the line, an empty chunk without a
\* format between them and one after them.
C37_Witness ==
    /\ gl_text = <<"a", "a">>
    /\ IsSome(gl_line)
    /\ Unwrap(gl_line).chunks
         = Some(<<[text |-> <<"a">>,
                   format |-> Some([background |-> "TRANSPARENT", color |-> "RED"])],
                  [text |-> <<>>, format |-> None],
                  [text |-> <<"a">>,
                   format |-> Some([background |-> "TRANSPARENT", color |-> "RED"])],
                  [text |-> <<>>, format |-> None]>>)

\* ------------------------------------------------------------ the panes
\* LogTool on its own: files are picked in the dialog or in the menu of
\* recent files, and tabs are closed.  A pane stands for its LogFile: its
\* tile id and its path.
MaxTileId == 5
MaxPending == 1
MAX_RECENT_FILES == 2
Paths == {"p", "q", "r"}
PickLists == SeqsUpTo(Paths, 2) \ {<<>>}

\* A lookup that finds no pane.
matching_tile_Blind(t, path) == None

\* LogTool::update, lines 290-303: the loop over the tiles keeps the id of
\* the last pane whose path is the picked one.
matching_tile(t, path) ==
    LET hits == {i \in 1..Len(t.panes) : t.panes[i].path = path}
    IN IF hits = {} THEN None
       ELSE Some(t.panes[CHOOSE i \in hits : \A k \in hits : k <= i].id)

\* Tree::make_active with the id of a pane, line 307.
make_active(t, id) ==
    IF \E i \in 1..Len(t.tabs.children) : t.tabs.children[i] = id
    THEN [t EXCEPT !.tabs.active = Some(id)]
    ELSE t

\* LogTool::add_tile, lines 237-260: the pane is inserted; with a root it
\* becomes the last and the active tab of the root container, without one
\* a tab container holding it becomes the root.
add_tile(t, path) ==
    LET id == t.next_tile_id
        t1 == [t EXCEPT !.panes = Append(@, [id |-> id, path |-> path]),
                        !.next_tile_id = id + 1]
    IN IF IsSome(t1.root)
       THEN [t1 EXCEPT !.tabs = [children |-> Append(@.children, id),
                                 active |-> Some(id)]]
       ELSE [t1 EXCEPT !.root = Some(id + 1),
                       !.next_tile_id = id + 2,
                       !.tabs = [children |-> <<id>>, active |-> Some(id)]]

\* LogTool::update, lines 316-330: the path moves to the front of the
\* recent files, and the oldest is dropped over MAX_RECENT_FILES.
Recent(rf, path) ==
    LET front == <<path>> \o SelectSeq(rf, LAMBDA p : p /= path)
    IN IF Len(front) > MAX_RECENT_FILES
       THEN SubSeq(front, 1, Len(front) - 1)
       ELSE front

\* LogTool::update, lines 287-331: the FilesPicked message, path by path.
RECURSIVE FilesPicked(_, _, _)
FilesPicked(t, rf, files) ==
    IF files = <<>> THEN [tree |-> t, recent_files |-> rf]
    ELSE LET path == Head(files)
             found == matching_tile(t, path)
             t1 == IF IsSome(found) THEN make_active(t, Unwrap(found))
                   ELSE add_tile(t, path)
         IN FilesPicked(t1, Recent(rf, path), Tail(files))

\* Tree::ui, line 411: a click on the close button of a tab removes its
\* tile (on_tab_close returns true, lines 192-207), the first tab becomes
\* the active one when the active one is gone, and a tab container left
\* without tabs is pruned (simplification_options, lines 181-186).
Tree_ui(t, close) ==
    LET kept == SelectSeq(t.tabs.children, LAMBDA c : c /= close)
        t1 == [t EXCEPT !.panes = SelectSeq(@, LAMBDA p : p.id /= close),
                        !.tabs = [children |-> kept,
                                  active |-> IF kept = <<>> THEN None
                                             ELSE IF @.active = Some(close)
                                                     \/ @.active = None
                                                  THEN Some(kept[1])
                                                  ELSE @.active]]
    IN IF IsSome(t1.root) /\ kept = <<>>
       THEN [t1 EXCEPT !.root = None]
       ELSE t1

\* The inputs of a frame: none, a click on entry i of the recent files, or
\* a click on the close button of the tab of tile id.
Inputs ==
    {[kind |-> "none", arg |-> 0]}
        \cup {[kind |-> k, arg |-> n] :
                k \in {"recent", "close"}, n \in 1..(MaxTileId + 2)}

\* The file dialog's task sends what the user picked (lines 353-366).
DialogPicked(files) ==
    /\ tree.next_tile_id <= MaxTileId
    /\ Len(messages) < MaxPending
    /\ messages' = Append(messages, files)
    /\ UNCHANGED <<envVars, taskVars, chan, gate, paneVars, gl_text, gl_line,
                   tree, recent_files, ctlVars>>

\* LogTool::update, lines 279-413: at most one message is handled, the
\* menu sends the recent file that is clicked, and the tree is drawn.
LogTool_update(input) ==
    /\ input.kind = "close"
         => \E i \in 1..Len(tree.tabs.children) : tree.tabs.children[i] = input.arg
    /\ LET r == IF messages = <<>>
                THEN [tree |-> tree, recent_files |-> recent_files]
                ELSE FilesPicked(tree, recent_files, Head(messages))
           rest == IF messages = <<>> THEN <<>> ELSE Tail(messages)
       IN /\ input.kind = "recent"
               => /\ input.arg <= Len(r.recent_files)
                  /\ r.tree.next_tile_id <= MaxTileId
                  /\ Len(rest) < MaxPending
          /\ messages' = IF input.kind = "recent"
                         THEN Append(rest, <<r.recent_files[input.arg]>>)
                         ELSE rest
          /\ recent_files' = r.recent_files
          /\ tree' = Tree_ui(r.tree, IF input.kind = "close" THEN input.arg ELSE 0)
    /\ UNCHANGED <<envVars, taskVars, chan, gate, paneVars, gl_text, gl_line,
                   ctlVars>>

NextOpen ==
    \/ \E files \in PickLists : DialogPicked(files)
    \/ \E input \in Inputs : LogTool_update(input)

SpecOpen == InitRowModifier /\ [][NextOpen]_vars

\* The panes of a tree that show the path.
PanesOf(t, path) == {i \in 1..Len(t.panes) : t.panes[i].path = path}

\* The step is a frame that handles a FilesPicked message.
HandlesPick == messages /= <<>> /\ Len(messages') <= Len(messages)

\* The handled message names the path.
Picked(path) == \E i \in 1..Len(Head(messages)) : Head(messages)[i] = path

\* The tab of the tile is closed in the step.
Closed(id) ==
    /\ \E i \in 1..Len(tree.tabs.children) : tree.tabs.children[i] = id
    /\ \A i \in 1..Len(tree'.tabs.children) : tree'.tabs.children[i] /= id

\* C38: no two panes of the tree show the same path.  A frame that handles
\* a FilesPicked message leaves the pane of every picked path that was
\* open as the only pane of its path, unless its tab is closed in the
\* frame, and gives every picked path that was not open exactly one pane,
\* with a new tile id; a path that was not picked gets no pane; and with
\* no tab closed the pane of the last picked path is the active tab.
C38_OnePanePerPath ==
    /\ [](\A path \in Paths : Cardinality(PanesOf(tree, path)) <= 1)
    /\ [][HandlesPick
            => \A path \in Paths :
                 LET before == {tree.panes[i].id : i \in PanesOf(tree, path)}
                     after == {tree'.panes[i].id : i \in PanesOf(tree', path)}
                 IN /\ (Picked(path) /\ before /= {})
                         => (after = before \/ (after = {} /\ \E id \in before : Closed(id)))
                    /\ (Picked(path) /\ before = {})
                         => (/\ Cardinality(after) = 1
                             /\ \A id \in after : id >= tree.next_tile_id)
                    /\ ~Picked(path) => after \subseteq before]_vars
    /\ [][(HandlesPick /\ Len(tree'.panes) >= Len(tree.panes)
                /\ \A i \in 1..Len(tree.panes) : ~Closed(tree.panes[i].id))
            => LET files == Head(messages)
               IN \E i \in PanesOf(tree', files[Len(files)]) :
                     tree'.tabs.active = Some(tree'.panes[i].id)]_vars

\* Two panes are open, and a message naming the path of the first one,
\* which is not the active tab, waits to be handled.
C38_Witness ==
    /\ Len(tree.panes) = 2
    /\ messages /= <<>>
    /\ Head(messages) = <<tree.panes[1].path>>
    /\ tree.tabs.active = Some(tree.panes[2].id)
    /\ recent_files /= <<>>

====
